---- MODULE Spec2Model ----
(***************************************************************************)
(* Model of the smilefjeskart data-preparation pipeline                    *)
(* (src/scripts/build-tilsyn-geojson.ts).                                  *)
(*                                                                         *)
(* Strings are sequences of one-character strings, so that trimming,       *)
(* joining, slicing and normalisation are computed, not assumed.           *)
(* An optional value (undefined / null in the source) is a sequence of     *)
(* length 0 (absent) or 1 (present).  A JavaScript number is a record      *)
(* [nan, v]: Number() of text that is not numeric is NaN.                  *)
(***************************************************************************)
EXTENDS Integers, Sequences, FiniteSets, TLC

\* ------------------------------------------------------------------------
\* Optional values
\* ------------------------------------------------------------------------
None == <<>>

Some(x) == <<x>>

IsSome(m) == Len(m) = 1

Val(m) == m[1]

\* ------------------------------------------------------------------------
\* JavaScript string primitives
\* ------------------------------------------------------------------------
Digits == {"0", "1", "2", "3", "4", "5", "6", "7", "8", "9"}

DigitVal(c) ==
  CASE c = "0" -> 0 [] c = "1" -> 1 [] c = "2" -> 2 [] c = "3" -> 3
    [] c = "4" -> 4 [] c = "5" -> 5 [] c = "6" -> 6 [] c = "7" -> 7
    [] c = "8" -> 8 [] c = "9" -> 9

IsSpace(c) == c = " "

RECURSIVE TrimStart(_)
TrimStart(s) ==
  IF s = <<>> THEN <<>>
  ELSE IF IsSpace(Head(s)) THEN TrimStart(Tail(s)) ELSE s

RECURSIVE TrimEnd(_)
TrimEnd(s) ==
  IF s = <<>> THEN <<>>
  ELSE IF IsSpace(s[Len(s)]) THEN TrimEnd(SubSeq(s, 1, Len(s) - 1)) ELSE s

\* String.prototype.trim
Trim(s) == TrimEnd(TrimStart(s))

\* String.prototype.slice(a, b) with 0 <= a <= b <= length
Slice(s, a, b) == SubSeq(s, a + 1, b)

\* Array.prototype.join
RECURSIVE Join(_, _)
Join(parts, sep) ==
  IF parts = <<>> THEN <<>>
  ELSE IF Len(parts) = 1 THEN parts[1]
  ELSE parts[1] \o sep \o Join(Tail(parts), sep)

\* Array.prototype.filter(Boolean) on an array of optional strings:
\* undefined and "" are dropped, every other string is kept as it is.
RECURSIVE FilterBoolean(_)
FilterBoolean(parts) ==
  IF parts = <<>> THEN <<>>
  ELSE IF IsSome(parts[1]) /\ Val(parts[1]) # <<>>
       THEN <<Val(parts[1])>> \o FilterBoolean(Tail(parts))
       ELSE FilterBoolean(Tail(parts))

AllDigits(s) == \A k \in 1..Len(s) : s[k] \in Digits

RECURSIVE DecimalValue(_)
DecimalValue(s) ==
  IF s = <<>> THEN 0
  ELSE 10 * DecimalValue(SubSeq(s, 1, Len(s) - 1)) + DigitVal(s[Len(s)])

NaN == [nan |-> TRUE, v |-> 0]

Num(n) == [nan |-> FALSE, v |-> n]

\* Number(string) over the alphabet of digits, the blank and letters:
\* surrounding blanks are ignored, the empty string is 0, a run of decimal
\* digits is its value, anything else is NaN.
StringToNumber(s) ==
  LET t == Trim(s)
  IN IF t = <<>> THEN Num(0)
     ELSE IF AllDigits(t) THEN Num(DecimalValue(t)) ELSE NaN

\* Number(x) of an optional string: Number(undefined) is NaN.
ToNumber(m) == IF IsSome(m) THEN StringToNumber(Val(m)) ELSE NaN

\* a > b on JavaScript numbers: false as soon as one side is NaN.
Gt(a, b) == ~a.nan /\ ~b.nan /\ a.v > b.v

\* Number.isFinite
IsFinite(a) == ~a.nan

\* ------------------------------------------------------------------------
\* Pure helpers of the pipeline
\* ------------------------------------------------------------------------
parseDato(ddmmyyyy) ==
  LET d == Trim(IF IsSome(ddmmyyyy) THEN Val(ddmmyyyy) ELSE <<>>)
  IN IF Len(d) # 8 THEN Num(0)
     ELSE StringToNumber(Slice(d, 4, 8) \o Slice(d, 2, 4) \o Slice(d, 0, 2))

\* /['\u2019`]/ : the three apostrophe characters are treated alike; the
\* model's alphabet holds one of them.
Apostrophes == {"'"}

\* /[(),]/
Brackets == {"(", ")", ","}

RECURSIVE StripApostrophes(_)
StripApostrophes(s) ==
  IF s = <<>> THEN <<>>
  ELSE IF Head(s) \in Apostrophes THEN StripApostrophes(Tail(s))
       ELSE <<Head(s)>> \o StripApostrophes(Tail(s))

BracketsToSpace(s) == [k \in 1..Len(s) |-> IF s[k] \in Brackets THEN " " ELSE s[k]]

RECURSIVE CollapseSpaces(_)
CollapseSpaces(s) ==
  IF Len(s) < 2 THEN s
  ELSE IF IsSpace(s[1]) /\ IsSpace(s[2]) THEN CollapseSpaces(Tail(s))
       ELSE <<s[1]>> \o CollapseSpaces(Tail(s))

normalizeQuery(s) == Trim(CollapseSpaces(BracketsToSpace(StripApostrophes(s))))

isValidOrgnrUntrimmed(orgnr) ==
  IF ~IsSome(orgnr) \/ Val(orgnr) = <<>> THEN FALSE
  ELSE Len(Val(orgnr)) = 9 /\ AllDigits(Val(orgnr))

isValidOrgnr(orgnr) ==
  IF ~IsSome(orgnr) \/ Val(orgnr) = <<>> THEN FALSE
  ELSE LET t == Trim(Val(orgnr)) IN Len(t) = 9 /\ AllDigits(t)

buildMatAdresseFallbackUntrimmed(r) ==
  Join(FilterBoolean(<<r.adrlinje1, r.adrlinje2, r.postnr, r.poststed>>), <<",", " ">>)

buildMatAdresseFallback(r) ==
  Trim(Join(FilterBoolean(<<r.adrlinje1, r.adrlinje2, r.postnr, r.poststed>>),
            <<",", " ">>))

pickBrregAdresseForretningFirst(entity) ==
  IF IsSome(entity.forretningsadresse) THEN entity.forretningsadresse
  ELSE entity.beliggenhetsadresse

pickBrregAdresse(entity) ==
  IF IsSome(entity.beliggenhetsadresse) THEN entity.beliggenhetsadresse
  ELSE entity.forretningsadresse

OptTrim(m) == IF IsSome(m) THEN Some(Trim(Val(m))) ELSE None

formatBrregAdresseEmptyString(addr) ==
  LET lines == FilterBoolean([k \in 1..Len(addr.adresse) |-> Some(addr.adresse[k])])
      main == Trim(Join(lines, <<",", " ">>))
      tail == Trim(Join(FilterBoolean(<<OptTrim(addr.postnummer), OptTrim(addr.poststed)>>),
                        <<" ">>))
  IN Some(Trim(Join(FilterBoolean(<<Some(main), Some(tail)>>), <<",", " ">>)))

\* addr.adresse is the list of street lines, <<>> when the field is absent
\* ((addr.adresse ?? []) in the source).
formatBrregAdresse(addr) ==
  LET lines == FilterBoolean([k \in 1..Len(addr.adresse) |-> Some(addr.adresse[k])])
      pn == OptTrim(addr.postnummer)
      ps == OptTrim(addr.poststed)
      main == Trim(Join(lines, <<",", " ">>))
      tail == Trim(Join(FilterBoolean(<<pn, ps>>), <<" ">>))
      full == Trim(Join(FilterBoolean(<<Some(main), Some(tail)>>), <<",", " ">>))
  IN IF Len(full) # 0 THEN Some(full) ELSE None

\* ------------------------------------------------------------------------
\* Responses of the external services
\* ------------------------------------------------------------------------
\* Response.ok
ResOk(res) == res.status >= 200 /\ res.status <= 299

\* fetchJsonOrNull once fetch has answered: the parsed body, or null.
fetchJsonOrNull(res) ==
  IF res.status = 404 THEN None
  ELSE IF ~ResOk(res) THEN None
  ELSE res.body

\* u?.organisasjonsnummer is truthy
HasRecord(u) == IsSome(u)

HasOrgnr(u) ==
  /\ IsSome(u)
  /\ IsSome(Val(u).organisasjonsnummer)
  /\ Val(Val(u).organisasjonsnummer) # <<>>

\* extractLngLatFromKartverket: payload is the parsed JSON body (None when it
\* is not an object); adresser is None unless the field is an array.
extractLngLatFromKartverket(payload) ==
  IF ~IsSome(payload) THEN None
  ELSE LET adresser == Val(payload).adresser
       IN IF ~IsSome(adresser) \/ Len(Val(adresser)) = 0 THEN None
          ELSE LET rp == Val(adresser)[1].representasjonspunkt
               IN IF IsSome(rp) /\ Val(rp).lat.isNumber /\ Val(rp).lon.isNumber
                  THEN Some([lat |-> Val(rp).lat.v, lon |-> Val(rp).lon.v])
                  ELSE None

\* geocodeKartverket once fetch has answered
geocodeKartverketOriginOnError(res) ==
  IF ~ResOk(res) THEN Some([lat |-> 0, lon |-> 0])
  ELSE extractLngLatFromKartverket(res.body)

geocodeKartverket(res) ==
  IF ~ResOk(res) THEN None ELSE extractLngLatFromKartverket(res.body)

\* ------------------------------------------------------------------------
\* Bounds and the finite universe of inputs
\* ------------------------------------------------------------------------
MaxRows == 3

MaxRuns == 2

MaxAborts == 1

MAX_FEATURES == 2

Str_A == <<"A">>

Str_B == <<"B">>

Str_C == <<"C">>

Str_N == <<"N">>

Dato_01012024 == <<"0", "1", "0", "1", "2", "0", "2", "4">>

Dato_15012024 == <<"1", "5", "0", "1", "2", "0", "2", "4">>

Dato_Short == <<"2", "0", "2", "4">>

Dato_Malformed == <<"0", "1", "0", "1", "2", "0", "2", "x">>

Orgnr_1 == <<"1", "2", "3", "4", "5", "6", "7", "8", "9">>

Orgnr_1_Padded == <<" ">> \o Orgnr_1 \o <<" ">>

Orgnr_2 == <<"9", "8", "7", "6", "5", "4", "3", "2", "1">>

Orgnr_8Digits == <<"1", "2", "3", "4", "5", "6", "7", "8">>

Orgnr_Letter == <<"1", "2", "3", "4", "5", "6", "7", "8", "x">>

Adr_G1 == <<"G", " ", "1">>

Adr_G1_Trailing == <<"G", " ", "1", " ">>

Adr_G == <<"G">>

Str_constructor == <<"c", "o", "n", "s", "t", "r", "u", "c", "t", "o", "r">>

Adr_1 == <<"1">>

Row(id, orgnr, dato, karakter, a1, a2) ==
  [tilsynsobjektid |-> id, orgnummer |-> orgnr, navn |-> Some(Str_N),
   adrlinje1 |-> a1, adrlinje2 |-> a2, postnr |-> None, poststed |-> Some(<<>>),
   status |-> None, dato |-> dato, total_karakter |-> karakter]

\* The rows a parsed table is made of.
RowPool ==
  { Row(Some(Str_A), Some(Orgnr_1), Some(Dato_01012024), Some(<<"1">>), Some(Adr_G1), None),
    Row(Some(Str_A), Some(Orgnr_1_Padded), Some(Dato_15012024), Some(<<"2">>), Some(Adr_G), Some(Adr_1)),
    Row(Some(Str_A), None, Some(Dato_Malformed), Some(<<>>), Some(Adr_G1), None),
    Row(Some(Str_A), Some(Orgnr_Letter), Some(Dato_01012024), Some(<<"3">>), Some(Adr_G1_Trailing), None),
    Row(Some(Str_B), Some(Orgnr_8Digits), Some(Dato_Short), Some(<<"x">>), Some(Adr_G1), None),
    Row(Some(Str_B), Some(Orgnr_2), Some(Dato_15012024), None, Some(<<>>), None),
    Row(Some(<<>>), Some(Orgnr_1), Some(Dato_15012024), Some(<<"1">>), Some(Adr_G1), None),
    Row(Some(Str_C), None, Some(Dato_15012024), Some(<<" ", "2", " ">>), None, Some(<<>>)) }

RECURSIVE SeqsUpTo(_, _)
SeqsUpTo(S, n) ==
  IF n = 0 THEN {<<>>}
  ELSE LET shorter == SeqsUpTo(S, n - 1)
       IN shorter \cup {Append(q, x) : q \in {t \in shorter : Len(t) = n - 1}, x \in S}

\* Every table of at most MaxRows rows.
Tables == SeqsUpTo(RowPool, MaxRows)

\* The tables with one row for entity A followed by one row for entity B, at
\* most one of the two carrying a number the registry is asked about (a run
\* with two such numbers is among the runs over Tables).
TwoEntityTables ==
  {t \in {<<a, b>> : a \in {r \in RowPool : r.tilsynsobjektid = Some(Str_A)},
                     b \in {r \in RowPool : r.tilsynsobjektid = Some(Str_B)}} :
     ~(isValidOrgnr(t[1].orgnummer) /\ isValidOrgnr(t[2].orgnummer))}

\* The tables of four rows in which entity A appears, then entity B, then
\* entity A again, then entity C: more entities than MAX_FEATURES, the first
\* of them with a second row.
LimitTables ==
  {<<a, b, a2, c>> : a \in {r \in RowPool : r.tilsynsobjektid = Some(Str_A)},
                     b \in {r \in RowPool : r.tilsynsobjektid = Some(Str_B)},
                     a2 \in {r \in RowPool : r.tilsynsobjektid = Some(Str_A)},
                     c \in {r \in RowPool : r.tilsynsobjektid = Some(Str_C)}}

Row_A_Early ==
  Row(Some(Str_A), Some(Orgnr_1), Some(Dato_01012024), Some(<<"1">>), Some(Adr_G1), None)

Row_A_Late == Row(Some(Str_A), None, Some(Dato_15012024), Some(<<"3">>), Some(Adr_G), None)

\* Rows of which some lack the entity id, the date or the name: the field is
\* the empty string, or the row has no such field.
FilterPool ==
  { Row_A_Early,
    Row(Some(Str_B), None, Some(Dato_Short), Some(<<"2">>), Some(Adr_G1), None),
    [Row_A_Late EXCEPT !.tilsynsobjektid = Some(<<>>)],
    [Row_A_Late EXCEPT !.dato = Some(<<>>)],
    [Row_A_Late EXCEPT !.dato = None],
    [Row_A_Late EXCEPT !.navn = Some(<<>>)],
    [Row_A_Late EXCEPT !.tilsynsobjektid = Some(Str_C), !.navn = None] }

FilterTables == SeqsUpTo(FilterPool, MaxRows)

\* Rows whose raw address is a plain street, and rows whose raw address is a
\* name every JavaScript object inherits.
KeyPool ==
  { Row_A_Early, Row_A_Late,
    Row(Some(Str_B), None, Some(Dato_15012024), Some(<<"2">>), Some(Str_constructor), None),
    Row(Some(Str_B), None, Some(Dato_01012024), Some(<<"1">>), Some(<<>>), Some(Adr_1)) }

KeyTables == SeqsUpTo(KeyPool, MaxRows)

\* Registry records the two endpoints may answer with.
Addr_S == [adresse |-> << <<"S", " ", "1">> >>, postnummer |-> Some(<<"0", "1">>),
           poststed |-> Some(<<"O">>)]

Addr_Paren == [adresse |-> << <<"G", " ", "(", "1", ")">> >>, postnummer |-> None,
               poststed |-> None]

Addr_Empty == [adresse |-> <<>>, postnummer |-> None, poststed |-> None]

Addr_BlankPlace == [adresse |-> << <<>> >>, postnummer |-> None, poststed |-> Some(<<" ">>)]

Entity_Belig ==
  [organisasjonsnummer |-> Some(Orgnr_1), beliggenhetsadresse |-> Some(Addr_S),
   forretningsadresse |-> Some(Addr_Paren)]

Entity_Forr ==
  [organisasjonsnummer |-> Some(Orgnr_2), beliggenhetsadresse |-> None,
   forretningsadresse |-> Some(Addr_Paren)]

\* An operating-location address with nothing in it, and a registered-office
\* address.
Entity_BlankBelig ==
  [organisasjonsnummer |-> Some(Orgnr_1), beliggenhetsadresse |-> Some(Addr_BlankPlace),
   forretningsadresse |-> Some(Addr_Paren)]

Entity_NoOrgnr ==
  [organisasjonsnummer |-> None, beliggenhetsadresse |-> Some(Addr_S),
   forretningsadresse |-> None]

\* What the sub-entity endpoint (underenheter) may answer.
UnderenhetResponses ==
  { [status |-> 200, body |-> Some(Entity_Belig)],
    [status |-> 200, body |-> Some(Entity_BlankBelig)],
    [status |-> 200, body |-> Some(Entity_NoOrgnr)],
    [status |-> 404, body |-> None],
    [status |-> 500, body |-> None] }

\* What the main-entity endpoint (enheter) may answer.
EnhetResponses ==
  { [status |-> 200, body |-> Some(Entity_Forr)],
    [status |-> 200, body |-> Some(Entity_NoOrgnr)],
    [status |-> 404, body |-> None],
    [status |-> 500, body |-> None] }

JsNumber(n) == [isNumber |-> TRUE, v |-> n]

JsText(n) == [isNumber |-> FALSE, v |-> n]

Point(lat, lon) == [representasjonspunkt |-> Some([lat |-> lat, lon |-> lon])]

Payload(list) == Some([adresser |-> Some(list)])

GeocodeResponses ==
  { [status |-> 200, body |-> Payload(<<Point(JsNumber(60), JsNumber(10))>>)],
    [status |-> 200, body |-> Payload(<<Point(JsNumber(59), JsNumber(11))>>)],
    [status |-> 200, body |-> Payload(<<>>)],
    [status |-> 200, body |-> Payload(<<Point(JsText(60), JsNumber(10))>>)],
    [status |-> 200, body |-> Payload(<<[representasjonspunkt |-> None]>>)],
    [status |-> 500, body |-> None] }

\* ------------------------------------------------------------------------
\* State
\* ------------------------------------------------------------------------
VARIABLES
  rows,          \* parsed.data: the table served at CSV_URL
  budget,        \* how many runs, and how many aborted runs, a behaviour holds
  run,           \* number of the current process run
  aborts,        \* number of runs that ended in main().catch
  pc,            \* where main() is suspended
  latest,        \* the Map `latest`: keys in insertion order, and the mapping
  limited,       \* latestRows.slice(0, MAX_FEATURES)
  i,             \* position of the for-loop over `limited`
  brregCache,    \* in-memory registry cache
  geocodeCache,  \* in-memory geocode cache
  features,      \* features pushed so far
  orgnr,         \* loop locals
  bestAdresse,
  adresseKilde,
  geo,
  resp,          \* the response consumed by the last step, if any
  diskBrreg,     \* data/brreg-cache.json (None: no such file)
  diskGeocode,   \* data/geocode-cache.json
  diskOut,       \* public/tilsyn.geojson
  log,           \* history: external requests and sleeps, in order
  fnIn,          \* argument of the helper function under examination, if any
  fnOut,         \* its result, once applied
  mapLoaded,     \* client: the map's "load" event has fired
  loadOnce,      \* client: filter modes of the closures given to map.once("load", ...)
  fetching,      \* client: where the load handler's fetch of the dataset stands
  fullDataRef,   \* client: fullDataRef.current
  source,        \* client: data of the map source "tilsyn" (None: no such source)
  filterMode,    \* client: React state
  query,
  hits,
  selectedId,
  timers,        \* client: callbacks given to setTimeout(..., 0), oldest first
  events         \* client: number of user events so far

vars == <<rows, budget, run, aborts, pc, latest, limited, i, brregCache, geocodeCache, features,
          orgnr, bestAdresse, adresseKilde, geo, resp, diskBrreg, diskGeocode,
          diskOut, log, fnIn, fnOut, mapLoaded, loadOnce, fetching, fullDataRef, source,
          filterMode, query, hits, selectedId, timers, events>>

pure == <<fnIn, fnOut>>

pipeline == <<rows, budget, run, aborts, pc, latest, limited, i, brregCache, geocodeCache,
              features, orgnr, bestAdresse, adresseKilde, geo, resp, diskBrreg,
              diskGeocode, diskOut, log>>

clientVars == <<mapLoaded, loadOnce, fetching, fullDataRef, source, filterMode, query, hits,
                selectedId, timers, events>>

\* The page has mounted (src/unnamed/part_001, Home): the map is created and
\* not loaded yet; the filter effect, run with the initial mode, found the
\* style not loaded and left its closure with map.once("load", ...); the
\* search effect found no dataset and returned.
ClientMounted ==
  /\ mapLoaded = FALSE
  /\ loadOnce = <<"all">>
  /\ fetching = "idle"
  /\ fullDataRef = None
  /\ source = None
  /\ filterMode = "all"
  /\ query = <<>>
  /\ hits = <<>>
  /\ selectedId = None
  /\ timers = <<>>
  /\ events = 0

EmptyMap == [k \in {} |-> None]

\* obj[key] = value
Put(obj, key, value) ==
  [k \in DOMAIN obj \cup {key} |-> IF k = key THEN value ELSE obj[k]]

EmptyLatest == [keys |-> <<>>, map |-> EmptyMap]

\* ------------------------------------------------------------------------
\* Steps 1-3 of main: filter, latest per tilsynsobjektid, slice, load caches
\* ------------------------------------------------------------------------
Truthy(m) == IsSome(m) /\ Val(m) # <<>>

\* parsed.data.filter(r => r?.tilsynsobjektid && r?.dato && r?.navn)
RowPassesWithoutName(r) == Truthy(r.tilsynsobjektid) /\ Truthy(r.dato)

RowPasses(r) == Truthy(r.tilsynsobjektid) /\ Truthy(r.dato) /\ Truthy(r.navn)

FilterRows(data) == SelectSeq(data, RowPasses)

\* if (!cur || parseDato(r.dato) > parseDato(cur.dato))
Replaces(r, acc) ==
  LET key == Val(r.tilsynsobjektid)
  IN \/ key \notin DOMAIN acc.map
     \/ Gt(parseDato(r.dato), parseDato(acc.map[key].dato))

\* One iteration of the loop over rows: latest.set(key, r) keeps the position
\* of a key the Map already holds.
LatestStep(acc, r) ==
  LET key == Val(r.tilsynsobjektid)
  IN IF Replaces(r, acc)
     THEN [keys |-> IF key \in DOMAIN acc.map THEN acc.keys ELSE Append(acc.keys, key),
           map |-> Put(acc.map, key, r)]
     ELSE acc

RECURSIVE ReduceLatest(_, _)
ReduceLatest(rs, acc) ==
  IF rs = <<>> THEN acc ELSE ReduceLatest(Tail(rs), LatestStep(acc, Head(rs)))

\* [...latest.values()]
LatestRows(acc) == [k \in 1..Len(acc.keys) |-> acc.map[acc.keys[k]]]

\* latestRows.slice(0, MAX_FEATURES)
SliceLimitUnbounded(rs) == rs

SliceLimit(rs) == SubSeq(rs, 1, IF Len(rs) < MAX_FEATURES THEN Len(rs) ELSE MAX_FEATURES)

\* fs.existsSync(path) ? JSON.parse(readFileSync(path)) : {}
\* (the caches hold JSON values only, which JSON.stringify and JSON.parse
\* give back unchanged)
LoadCacheEmpty(file) == EmptyMap

LoadCache(file) == IF IsSome(file) THEN Val(file) ELSE EmptyMap

\* ------------------------------------------------------------------------
\* Step 4 of main: one record
\* ------------------------------------------------------------------------
\* const orgnr = isValidOrgnr(r.orgnummer) ? r.orgnummer.trim() : null
OrgnrOf(r) == IF isValidOrgnr(r.orgnummer) THEN Some(Trim(Val(r.orgnummer))) ELSE None

\* orgnr && !(orgnr in brregCache)
NeedsLookupWhenFalsy(o, cache) ==
  Truthy(o) /\ (Val(o) \notin DOMAIN cache \/ ~IsSome(cache[Val(o)]))

NeedsLookup(o, cache) == Truthy(o) /\ Val(o) \notin DOMAIN cache

\* lines 238-240: the formatted registry address of the cached entity
RegistryAddressFirstUsable(o, cache) ==
  LET entity == cache[Val(o)]
      belig == IF IsSome(entity) /\ IsSome(Val(entity).beliggenhetsadresse)
               THEN formatBrregAdresse(Val(Val(entity).beliggenhetsadresse)) ELSE None
      forr == IF IsSome(entity) /\ IsSome(Val(entity).forretningsadresse)
              THEN formatBrregAdresse(Val(Val(entity).forretningsadresse)) ELSE None
  IN IF IsSome(belig) THEN belig ELSE forr

RegistryAddress(o, cache) ==
  LET entity == cache[Val(o)]
      addr == IF IsSome(entity) THEN pickBrregAdresse(Val(entity)) ELSE None
  IN IF IsSome(addr) THEN formatBrregAdresse(Val(addr)) ELSE None

\* lines 229-252: bestAdresse and adresseKilde
ResolveAddressKeepsEmpty(r, o, cache) ==
  LET formatted == IF Truthy(o) THEN RegistryAddress(o, cache) ELSE None
  IN IF Truthy(formatted)
     THEN [adresse |-> formatted, kilde |-> "BRREG"]
     ELSE [adresse |-> Some(buildMatAdresseFallback(r)), kilde |-> "MAT"]

ResolveAddress(r, o, cache) ==
  LET formatted == IF Truthy(o) THEN RegistryAddress(o, cache) ELSE None
      matAddr == buildMatAdresseFallback(r)
  IN IF Truthy(formatted)
     THEN [adresse |-> formatted, kilde |-> "BRREG"]
     ELSE [adresse |-> IF matAddr # <<>> THEN Some(matAddr) ELSE None, kilde |-> "MAT"]

\* line 235: brregCache[orgnr] = await fetchBrregEntity(orgnr)
StoreEntityUnlessNull(cache, key, entity) ==
  IF IsSome(entity) THEN Put(cache, key, entity) ELSE cache

StoreEntity(cache, key, entity) == Put(cache, key, entity)

\* lines 267-270: if (geo) geocodeCache[geocodeKey] = geo
StoreGeoUnderQuery(cache, key, g) ==
  IF IsSome(g) THEN Put(cache, normalizeQuery(key), Val(g)) ELSE cache

StoreGeo(cache, key, g) == IF IsSome(g) THEN Put(cache, key, Val(g)) ELSE cache

\* Names every object inherits from Object.prototype, as far as the universe
\* of addresses holds them.
ObjectPrototypeKeys == {Str_constructor}

\* A value that is not a number where a number is expected: undefined
\* (written to a JSON file as null).
Undefined == 0 - 999

\* What geocodeCache[key] is for an inherited name: a function, whose lon and
\* lat are undefined.
Inherited == [lat |-> Undefined, lon |-> Undefined]

\* geocodeCache[geocodeKey] ?? null
CachedGeoUnderQuery(cache, key) ==
  IF normalizeQuery(key) \in DOMAIN cache THEN Some(cache[normalizeQuery(key)]) ELSE None

\* The cache is a plain object: a key that is not its own is looked up in
\* Object.prototype.
CachedGeo(cache, key) ==
  IF key \in DOMAIN cache THEN Some(cache[key])
  ELSE IF key \in ObjectPrototypeKeys THEN Some(Inherited)
  ELSE None

\* lines 277-292
MakeFeature(r, o, adresse, kilde, g) ==
  LET karakter == ToNumber(r.total_karakter)
  IN [coordinates |-> <<g.lon, g.lat>>,
      tilsynsobjektid |-> Val(r.tilsynsobjektid),
      orgnummer |-> o,
      navn |-> Val(r.navn),
      adresse |-> adresse,
      dato |-> Val(r.dato),
      karakter |-> IF IsFinite(karakter) THEN karakter.v ELSE -1,
      status |-> r.status,
      adressekilde |-> kilde]

LogEntry(kind, key, sok, res) ==
  [run |-> run, rec |-> i, kind |-> kind, key |-> key, query |-> sok, res |-> res]

\* the outcome of the request logged last becomes known
Settle(l, res) == [l EXCEPT ![Len(l)].res = res]

ResetLocals ==
  /\ orgnr' = None
  /\ bestAdresse' = None
  /\ adresseKilde' = "MAT"
  /\ geo' = None

\* `continue`, or the end of the loop body
NextRecord ==
  /\ pc' = "loop"
  /\ i' = i + 1
  /\ ResetLocals

\* lines 238-275 up to the next await, for record r with organization number o
\* and registry cache `cache`; `lg` is the history so far.
AfterRegistry(r, o, cache, lg) ==
  LET best == ResolveAddress(r, o, cache)
  IN IF ~IsSome(best.adresse)
     THEN /\ NextRecord
          /\ log' = lg
          /\ UNCHANGED <<geocodeCache, features>>
     ELSE LET cached == CachedGeo(geocodeCache, Val(best.adresse))
          IN IF IsSome(cached)
             THEN /\ features' = Append(features,
                        MakeFeature(r, o, Val(best.adresse), best.kilde, Val(cached)))
                  /\ NextRecord
                  /\ log' = lg
                  /\ UNCHANGED geocodeCache
             ELSE /\ pc' = "awaitG"
                  /\ orgnr' = o
                  /\ bestAdresse' = best.adresse
                  /\ adresseKilde' = best.kilde
                  /\ geo' = None
                  /\ log' = Append(lg, LogEntry("G", Val(best.adresse),
                                               normalizeQuery(Val(best.adresse)), "pending"))
                  /\ UNCHANGED <<i, geocodeCache, features>>

\* ------------------------------------------------------------------------
\* Initial state and the steps of main(), one per stretch between awaits
\* ------------------------------------------------------------------------
\* No run has started: nothing in memory, no file on disk.
PipelineIdle ==
  /\ run = 0
  /\ aborts = 0
  /\ pc = "idle"
  /\ latest = EmptyLatest
  /\ limited = <<>>
  /\ i = 1
  /\ brregCache = EmptyMap
  /\ geocodeCache = EmptyMap
  /\ features = <<>>
  /\ orgnr = None
  /\ bestAdresse = None
  /\ adresseKilde = "MAT"
  /\ geo = None
  /\ resp = None
  /\ diskBrreg = None
  /\ diskGeocode = None
  /\ diskOut = None
  /\ log = <<>>

\* Several runs, one after the other, over a table of two entities.
Init ==
  /\ rows \in TwoEntityTables
  /\ budget = [runs |-> MaxRuns, aborts |-> MaxAborts]
  /\ PipelineIdle
  /\ ClientMounted
  /\ fnIn = None
  /\ fnOut = None

\* A single run over any table.
InitTables ==
  /\ rows \in Tables
  /\ budget = [runs |-> 1, aborts |-> 1]
  /\ PipelineIdle
  /\ ClientMounted
  /\ fnIn = None
  /\ fnOut = None

\* A single run over a table of more entities than MAX_FEATURES.
InitLimit ==
  /\ rows \in LimitTables
  /\ budget = [runs |-> 1, aborts |-> 1]
  /\ PipelineIdle
  /\ ClientMounted
  /\ fnIn = None
  /\ fnOut = None

\* A single run over a table with rows that lack a field.
InitFilter ==
  /\ rows \in FilterTables
  /\ budget = [runs |-> 1, aborts |-> 1]
  /\ PipelineIdle
  /\ ClientMounted
  /\ fnIn = None
  /\ fnOut = None

\* A single run over a table with such addresses.
InitKeys ==
  /\ rows \in KeyTables
  /\ budget = [runs |-> 1, aborts |-> 1]
  /\ PipelineIdle
  /\ ClientMounted
  /\ fnIn = None
  /\ fnOut = None

\* The script is started: a fresh process, suspended on the CSV download.
StartRun ==
  /\ pc \in {"idle", "done", "aborted"}
  /\ run < budget.runs
  /\ run' = run + 1
  /\ pc' = "csv"
  /\ latest' = EmptyLatest
  /\ limited' = <<>>
  /\ i' = 1
  /\ brregCache' = EmptyMap
  /\ geocodeCache' = EmptyMap
  /\ features' = <<>>
  /\ ResetLocals
  /\ resp' = None
  /\ UNCHANGED <<pure, clientVars>>
  /\ UNCHANGED <<rows, budget, aborts, diskBrreg, diskGeocode, diskOut, log>>

\* lines 180-223: the table arrives; filter, reduce, slice, load both caches.
CsvResponse ==
  /\ pc = "csv"
  /\ latest' = ReduceLatest(FilterRows(rows), EmptyLatest)
  /\ limited' = SliceLimit(LatestRows(latest'))
  /\ brregCache' = LoadCache(diskBrreg)
  /\ geocodeCache' = LoadCache(diskGeocode)
  /\ features' = <<>>
  /\ i' = 1
  /\ pc' = "loop"
  /\ resp' = None
  /\ UNCHANGED <<pure, clientVars>>
  /\ UNCHANGED <<rows, budget, run, aborts, orgnr, bestAdresse, adresseKilde, geo,
                 diskBrreg, diskGeocode, diskOut, log>>

\* lines 225-237 (and on to the next await when no lookup is needed)
BeginRecordDuringDelay ==
  /\ pc \in {"loop", "sleepG"}
  /\ i <= Len(limited)
  /\ resp' = None
  /\ LET r == limited[i]
         o == OrgnrOf(r)
     IN IF NeedsLookup(o, brregCache)
        THEN /\ pc' = "awaitU"
             /\ orgnr' = o
             /\ log' = Append(log, LogEntry("U", Val(o), Val(o), "pending"))
             /\ UNCHANGED <<i, bestAdresse, adresseKilde, geo, geocodeCache, features>>
        ELSE AfterRegistry(r, o, brregCache, log)
  /\ UNCHANGED <<pure, clientVars>>
  /\ UNCHANGED <<rows, budget, run, aborts, latest, limited, brregCache, diskBrreg, diskGeocode, diskOut>>

BeginRecord ==
  /\ pc = "loop"
  /\ i <= Len(limited)
  /\ resp' = None
  /\ LET r == limited[i]
         o == OrgnrOf(r)
     IN IF NeedsLookup(o, brregCache)
        THEN /\ pc' = "awaitU"
             /\ orgnr' = o
             /\ log' = Append(log, LogEntry("U", Val(o), Val(o), "pending"))
             /\ UNCHANGED <<i, bestAdresse, adresseKilde, geo, geocodeCache, features>>
        ELSE AfterRegistry(r, o, brregCache, log)
  /\ UNCHANGED <<pure, clientVars>>
  /\ UNCHANGED <<rows, budget, run, aborts, latest, limited, brregCache, diskBrreg, diskGeocode, diskOut>>

\* fetchBrregEntity, lines 129-130: the sub-entity endpoint answers.
UnderenhetResponse ==
  /\ pc = "awaitU"
  /\ \E res \in UnderenhetResponses :
       LET u == fetchJsonOrNull(res)
       IN /\ resp' = Some(res)
          /\ IF HasOrgnr(u)
             THEN /\ brregCache' = StoreEntity(brregCache, Val(orgnr), u)
                  /\ pc' = "sleepB"
                  /\ log' = Append(Settle(log, "hit"),
                                   LogEntry("sleepB", Val(orgnr), Val(orgnr), "sleep"))
             ELSE /\ pc' = "awaitE"
                  /\ log' = Append(Settle(log, "miss"),
                                   LogEntry("E", Val(orgnr), Val(orgnr), "pending"))
                  /\ UNCHANGED brregCache
  /\ UNCHANGED <<pure, clientVars>>
  /\ UNCHANGED <<rows, budget, run, aborts, latest, limited, i, geocodeCache, features, orgnr,
                 bestAdresse, adresseKilde, geo, diskBrreg, diskGeocode, diskOut>>

\* fetchBrregEntity, lines 133-136, and the cache write of line 235.
EnhetResponse ==
  /\ pc = "awaitE"
  /\ \E res \in EnhetResponses :
       LET e == fetchJsonOrNull(res)
       IN /\ resp' = Some(res)
          /\ brregCache' = StoreEntity(brregCache, Val(orgnr), IF HasOrgnr(e) THEN e ELSE None)
          /\ log' = Append(Settle(log, IF HasOrgnr(e) THEN "hit"
                                            ELSE IF res.status # 404 /\ ~ResOk(res) THEN "error"
                                            ELSE "miss"),
                           LogEntry("sleepB", Val(orgnr), Val(orgnr), "sleep"))
  /\ pc' = "sleepB"
  /\ UNCHANGED <<pure, clientVars>>
  /\ UNCHANGED <<rows, budget, run, aborts, latest, limited, i, geocodeCache, features, orgnr,
                 bestAdresse, adresseKilde, geo, diskBrreg, diskGeocode, diskOut>>

\* line 236 is over: lines 238-275 up to the next await.
BrregSleepDone ==
  /\ pc = "sleepB"
  /\ resp' = None
  /\ AfterRegistry(limited[i], orgnr, brregCache, log)
  /\ UNCHANGED <<pure, clientVars>>
  /\ UNCHANGED <<rows, budget, run, aborts, latest, limited, brregCache, diskBrreg, diskGeocode, diskOut>>

\* lines 265-272: the geocoder answers.
GeocodeResponseNoDelayOnNull ==
  /\ pc = "awaitG"
  /\ \E res \in GeocodeResponses :
       LET g == geocodeKartverket(res)
       IN /\ resp' = Some(res)
          /\ geo' = g
          /\ geocodeCache' = StoreGeo(geocodeCache, Val(bestAdresse), g)
          /\ log' = IF IsSome(g)
                    THEN Append(Settle(log, "hit"),
                                LogEntry("sleepG", Val(bestAdresse),
                                         normalizeQuery(Val(bestAdresse)), "sleep"))
                    ELSE Settle(log, "miss")
  /\ pc' = "sleepG"
  /\ UNCHANGED <<pure, clientVars>>
  /\ UNCHANGED <<rows, budget, run, aborts, latest, limited, i, brregCache, features, orgnr,
                 bestAdresse, adresseKilde, diskBrreg, diskGeocode, diskOut>>

GeocodeResponse ==
  /\ pc = "awaitG"
  /\ \E res \in GeocodeResponses :
       LET g == geocodeKartverket(res)
       IN /\ resp' = Some(res)
          /\ geo' = g
          /\ geocodeCache' = StoreGeo(geocodeCache, Val(bestAdresse), g)
          /\ log' = Append(Settle(log, IF IsSome(g) THEN "hit" ELSE "miss"),
                           LogEntry("sleepG", Val(bestAdresse),
                                    normalizeQuery(Val(bestAdresse)), "sleep"))
  /\ pc' = "sleepG"
  /\ UNCHANGED <<pure, clientVars>>
  /\ UNCHANGED <<rows, budget, run, aborts, latest, limited, i, brregCache, features, orgnr,
                 bestAdresse, adresseKilde, diskBrreg, diskGeocode, diskOut>>

\* line 272 is over: lines 275-293.
GeocodeSleepDone ==
  /\ pc = "sleepG"
  /\ resp' = None
  /\ features' = IF IsSome(geo)
                 THEN Append(features, MakeFeature(limited[i], orgnr, Val(bestAdresse),
                                                   adresseKilde, Val(geo)))
                 ELSE features
  /\ NextRecord
  /\ UNCHANGED <<pure, clientVars>>
  /\ UNCHANGED <<rows, budget, run, aborts, latest, limited, brregCache, geocodeCache,
                 diskBrreg, diskGeocode, diskOut, log>>

\* lines 295-305: both caches and the feature collection are written.
WriteFiles ==
  /\ pc = "loop"
  /\ i > Len(limited)
  /\ diskBrreg' = Some(brregCache)
  /\ diskGeocode' = Some(geocodeCache)
  /\ diskOut' = Some(features)
  /\ pc' = "done"
  /\ resp' = None
  /\ UNCHANGED <<pure, clientVars>>
  /\ UNCHANGED <<rows, budget, run, aborts, latest, limited, i, brregCache, geocodeCache, features,
                 orgnr, bestAdresse, adresseKilde, geo, log>>

\* An awaited fetch (or the parse of its body) rejects: main().catch logs the
\* error and the process exits with status 1, writing nothing; the memory of
\* the process is gone.
FetchThrowsAfterSaving ==
  /\ pc \in {"csv", "awaitU", "awaitE", "awaitG"}
  /\ aborts < budget.aborts
  /\ aborts' = aborts + 1
  /\ pc' = "aborted"
  /\ resp' = None
  /\ log' = IF pc = "csv" THEN log ELSE Settle(log, "throw")
  /\ latest' = EmptyLatest
  /\ limited' = <<>>
  /\ i' = 1
  /\ brregCache' = EmptyMap
  /\ geocodeCache' = EmptyMap
  /\ features' = <<>>
  /\ ResetLocals
  /\ UNCHANGED <<pure, clientVars>>
  /\ diskBrreg' = Some(brregCache)
  /\ diskGeocode' = Some(geocodeCache)
  /\ UNCHANGED <<rows, budget, run, diskOut>>

FetchThrows ==
  /\ pc \in {"csv", "awaitU", "awaitE", "awaitG"}
  /\ aborts < budget.aborts
  /\ aborts' = aborts + 1
  /\ pc' = "aborted"
  /\ resp' = None
  /\ log' = IF pc = "csv" THEN log ELSE Settle(log, "throw")
  /\ latest' = EmptyLatest
  /\ limited' = <<>>
  /\ i' = 1
  /\ brregCache' = EmptyMap
  /\ geocodeCache' = EmptyMap
  /\ features' = <<>>
  /\ ResetLocals
  /\ UNCHANGED <<pure, clientVars>>
  /\ UNCHANGED <<rows, budget, run, diskBrreg, diskGeocode, diskOut>>

Next ==
  \/ StartRun
  \/ CsvResponse
  \/ BeginRecord
  \/ UnderenhetResponse
  \/ EnhetResponse
  \/ BrregSleepDone
  \/ GeocodeResponse
  \/ GeocodeSleepDone
  \/ WriteFiles
  \/ FetchThrows

Spec == Init /\ [][Next]_vars

SpecTables == InitTables /\ [][Next]_vars

SpecLimit == InitLimit /\ [][Next]_vars

SpecFilter == InitFilter /\ [][Next]_vars

SpecKeys == InitKeys /\ [][Next]_vars

\* ------------------------------------------------------------------------
\* formatBrregAdresse on its own, over a universe of registry addresses
\* ------------------------------------------------------------------------
MaxLines == 2

Str_Storgata1 == <<"S", "t", "o", "r", "g", "a", "t", "a", " ", "1">>

Str_0150 == <<"0", "1", "5", "0">>

Str_Oslo == <<"O", "s", "l", "o">>

Str_Blank == <<" ">>

Str_B_Trailing == <<"B", " ">>

Str_0150_Padded == <<" ">> \o Str_0150 \o <<" ">>

LinePool == {<<>>, Str_Blank, Str_Storgata1, Str_B_Trailing}

AddressInputs ==
  [adresse : SeqsUpTo(LinePool, MaxLines),
   postnummer : {None, Some(<<>>), Some(Str_Blank), Some(Str_0150), Some(Str_0150_Padded)},
   poststed : {None, Some(<<>>), Some(Str_Blank), Some(Str_Oslo)}]

InitFormat ==
  /\ rows = <<>>
  /\ budget = [runs |-> 0, aborts |-> 0]
  /\ PipelineIdle
  /\ ClientMounted
  /\ fnIn \in {Some(addr) : addr \in AddressInputs}
  /\ fnOut = None

ApplyFormat ==
  /\ IsSome(fnIn)
  /\ fnOut = None
  /\ fnOut' = Some(formatBrregAdresse(Val(fnIn)))
  /\ UNCHANGED <<fnIn, pipeline, clientVars>>

NextFormat == ApplyFormat

SpecFormat == InitFormat /\ [][NextFormat]_vars

\* ------------------------------------------------------------------------
\* parseDato on its own, over a universe of date fields
\* ------------------------------------------------------------------------
DayPool == {<<"0", "5">>, <<"1", "5">>, <<"1", "x">>}

MonthPool == {<<"0", "3">>, <<"1", "2">>, <<"x", "3">>}

YearPool == {<<"2", "0", "2", "4">>, <<"1", "9", "9", "9">>, <<"2", "0", "x", "4">>}

\* Day, month and year written one after the other, as they are or with a
\* blank before or after; and fields of another length, among them the absent
\* one.
DateInputs ==
  {Some(pre \o d \o m \o y \o post) :
     d \in DayPool, m \in MonthPool, y \in YearPool,
     pre \in {<<>>, <<" ">>}, post \in {<<>>, <<" ">>}}
  \cup {None, Some(<<>>), Some(Dato_Short), Some(Orgnr_1)}

InitDato ==
  /\ rows = <<>>
  /\ budget = [runs |-> 0, aborts |-> 0]
  /\ PipelineIdle
  /\ ClientMounted
  /\ fnIn \in {Some(d) : d \in DateInputs}
  /\ fnOut = None

ApplyDato ==
  /\ IsSome(fnIn)
  /\ fnOut = None
  /\ fnOut' = Some(parseDato(Val(fnIn)))
  /\ UNCHANGED <<fnIn, pipeline, clientVars>>

NextDato == ApplyDato

SpecDato == InitDato /\ [][NextDato]_vars

\* ------------------------------------------------------------------------
\* pickBrregAdresse on its own, over a universe of registry entities
\* ------------------------------------------------------------------------
AddressOptions == {None, Some(Addr_S), Some(Addr_Paren), Some(Addr_Empty), Some(Addr_BlankPlace)}

EntityInputs ==
  [organisasjonsnummer : {None, Some(<<>>), Some(Orgnr_1)},
   beliggenhetsadresse : AddressOptions,
   forretningsadresse : AddressOptions]

InitPick ==
  /\ rows = <<>>
  /\ budget = [runs |-> 0, aborts |-> 0]
  /\ PipelineIdle
  /\ ClientMounted
  /\ fnIn \in {Some(e) : e \in EntityInputs}
  /\ fnOut = None

ApplyPick ==
  /\ IsSome(fnIn)
  /\ fnOut = None
  /\ fnOut' = Some(pickBrregAdresse(Val(fnIn)))
  /\ UNCHANGED <<fnIn, pipeline, clientVars>>

NextPick == ApplyPick

SpecPick == InitPick /\ [][NextPick]_vars

\* ------------------------------------------------------------------------
\* Rating derivation of the map client (src/unnamed/part_001)
\* ------------------------------------------------------------------------
\* A property of a feature as the client reads it: undefined, a number or a
\* string.  A number of the client is held in tenths (1.5 is 15), so that a
\* fraction is a value like any other; `finite` is FALSE for NaN and the
\* infinities.
Absent == [type |-> "undefined", finite |-> FALSE, tenths |-> 0, text |-> <<>>]

NumberField(t) == [type |-> "number", finite |-> TRUE, tenths |-> t, text |-> <<>>]

NotFiniteField == [type |-> "number", finite |-> FALSE, tenths |-> 0, text |-> <<>>]

TextField(str) == [type |-> "string", finite |-> FALSE, tenths |-> 0, text |-> str]

\* Number(t) of a trimmed, non-empty text, in tenths: an optional minus sign,
\* decimal digits and at most one decimal point (the texts of the universe
\* carry at most one digit after it); anything else is NaN.
NumberOfText(t) ==
  LET neg == Head(t) = "-"
      body == IF neg THEN Tail(t) ELSE t
      dots == {k \in 1..Len(body) : body[k] = "."}
      dot == IF dots = {} THEN Len(body) + 1 ELSE CHOOSE k \in dots : TRUE
      whole == SubSeq(body, 1, dot - 1)
      frac == SubSeq(body, dot + 1, Len(body))
      magnitude == DecimalValue(whole) * 10 + DecimalValue(frac)
  IN IF /\ Cardinality(dots) <= 1
        /\ AllDigits(whole) /\ AllDigits(frac) /\ Len(frac) <= 1
        /\ Len(whole) + Len(frac) > 0
     THEN Num(IF neg THEN 0 - magnitude ELSE magnitude)
     ELSE NaN

\* toNumberMaybe: the number, or null
toNumberMaybe(v) ==
  IF v.type = "number" THEN (IF v.finite THEN Some(v.tenths) ELSE None)
  ELSE IF v.type = "string"
       THEN LET t == Trim(v.text)
            IN IF t = <<>> THEN None
               ELSE LET n == NumberOfText(t)
                    IN IF IsFinite(n) THEN Some(n.v) ELSE None
  ELSE None

\* the loop over raws: the values that count, in order
RECURSIVE Candidates(_)
Candidates(raws) ==
  IF raws = <<>> THEN <<>>
  ELSE LET n == toNumberMaybe(Head(raws))
       IN IF IsSome(n) /\ Val(n) >= 0 /\ Val(n) <= 30
          THEN <<Val(n)>> \o Candidates(Tail(raws))
          ELSE Candidates(Tail(raws))

\* Math.max(...candidates) of a non-empty list
RECURSIVE MathMax(_)
MathMax(list) ==
  IF Len(list) = 1 THEN list[1]
  ELSE LET m == MathMax(Tail(list)) IN IF list[1] > m THEN list[1] ELSE m

\* p.raws is <<p.karakter1, ..., p.karakter10>>
computeSmileScoreFirstCandidate(p) ==
  LET candidates == Candidates(p.raws)
      fallback == toNumberMaybe(p.karakter)
  IN IF Len(candidates) > 0 THEN candidates[1]
     ELSE IF IsSome(fallback) /\ Val(fallback) >= 0 /\ Val(fallback) <= 30
          THEN Val(fallback)
          ELSE -10

computeSmileScore(p) ==
  LET candidates == Candidates(p.raws)
      fallback == toNumberMaybe(p.karakter)
  IN IF Len(candidates) > 0 THEN MathMax(candidates)
     ELSE IF IsSome(fallback) /\ Val(fallback) >= 0 /\ Val(fallback) <= 30
          THEN Val(fallback)
          ELSE -10

\* karakter1 .. karakter10
NumCriteria == 10

\* How many of the ten criteria a feature of the universe carries.
MaxFilled == 2

CriterionValues ==
  { NumberField(0), NumberField(20), NumberField(40), NumberField(15),
    TextField(<<"1">>), TextField(<<"x">>) }

LegacyValues ==
  { Absent, NumberField(0 - 10), NotFiniteField, TextField(<<" ", "3">>),
    TextField(<<"9">>), TextField(<<" ">>) }

\* The lists of ten criteria of which at most `filled` are present.
CriteriaInputs(filled) ==
  UNION { { [k \in 1..NumCriteria |-> IF k \in present THEN g[k] ELSE Absent] :
              g \in [present -> CriterionValues] } :
          present \in {S \in SUBSET (1..NumCriteria) : Cardinality(S) <= filled} }

ScoreInputs(filled) == [raws : CriteriaInputs(filled), karakter : LegacyValues]

InitScore ==
  /\ rows = <<>>
  /\ budget = [runs |-> 0, aborts |-> 0]
  /\ PipelineIdle
  /\ ClientMounted
  /\ fnIn \in {Some(p) : p \in ScoreInputs(MaxFilled)}
  /\ fnOut = None

ApplyScore ==
  /\ IsSome(fnIn)
  /\ fnOut = None
  /\ fnOut' = Some(computeSmileScore(Val(fnIn)))
  /\ UNCHANGED <<fnIn, pipeline, clientVars>>

NextScore == ApplyScore

SpecScore == InitScore /\ [][NextScore]_vars

\* ------------------------------------------------------------------------
\* The map client (src/unnamed/part_001, Home)
\* ------------------------------------------------------------------------
\* How many user events (filter changes, key strokes, clicks) a behaviour holds.
MaxEvents == 3

FilterModes == {"all", "smil", "strek", "sur"}

\* String.prototype.toLowerCase over the letters of the universe
ToLowerCase(str) ==
  [k \in 1..Len(str) |->
     CASE str[k] = "A" -> "a" [] str[k] = "B" -> "b" [] str[k] = "G" -> "g"
       [] str[k] = "K" -> "k" [] str[k] = "N" -> "n" [] str[k] = "S" -> "s"
       [] OTHER -> str[k]]

\* normalize: lower case, runs of white space to one blank, trimmed
normalize(str) == Trim(CollapseSpaces(ToLowerCase(str)))

\* String.prototype.includes
Includes(hay, needle) ==
  \E k \in 0..(Len(hay) - Len(needle)) : SubSeq(hay, k + 1, k + Len(needle)) = needle

\* The properties of a feature of public/tilsyn.geojson as res.json() gives
\* them to computeSmileScore: the rating the pipeline wrote is a JSON number,
\* and the pipeline writes no per-criterion field.
ParsedProps(f) ==
  [raws |-> [k \in 1..NumCriteria |-> Absent], karakter |-> NumberField(10 * f.karakter)]

\* { ...f, properties: { ...f.properties, smileScore: computeSmileScore(f.properties) } }
EnrichEmbedded(f) ==
  [coordinates |-> f.coordinates, tilsynsobjektid |-> f.tilsynsobjektid,
   orgnummer |-> f.orgnummer, navn |-> f.navn, adresse |-> f.adresse, dato |-> f.dato,
   karakter |-> f.karakter, status |-> f.status, adressekilde |-> f.adressekilde,
   smileScore |-> 10 * f.karakter]

Enrich(f) ==
  [coordinates |-> f.coordinates, tilsynsobjektid |-> f.tilsynsobjektid,
   orgnummer |-> f.orgnummer, navn |-> f.navn, adresse |-> f.adresse, dato |-> f.dato,
   karakter |-> f.karakter, status |-> f.status, adressekilde |-> f.adressekilde,
   smileScore |-> computeSmileScore(ParsedProps(f))]

\* A coordinate of the client: the number read from the file, moved by
\* radiusDegrees * cos or sin of the angle (i / n) * 2 * PI when the feature
\* shares its place with others (axis "none": not moved).
Placed(base, axis, slot, of) == [base |-> base, axis |-> axis, slot |-> slot, of |-> of]

\* spreadFeatures: the coordinate pairs of the features in order of first
\* appearance (the keys of coordMap) ...
RECURSIVE CoordKeys(_, _)
CoordKeys(fs, seen) ==
  IF fs = <<>> THEN seen
  ELSE CoordKeys(Tail(fs),
                 IF \E k \in 1..Len(seen) : seen[k] = Head(fs).coordinates
                 THEN seen ELSE Append(seen, Head(fs).coordinates))

\* ... and the features of one group, left where they are when alone and put
\* on a circle around the first one's place otherwise.
SpreadGroup(group) ==
  [n \in 1..Len(group) |->
     [group[n] EXCEPT !.coordinates =
        IF Len(group) = 1
        THEN <<Placed(group[n].coordinates[1], "none", 0, 1),
               Placed(group[n].coordinates[2], "none", 0, 1)>>
        ELSE <<Placed(group[1].coordinates[1], "cos", n - 1, Len(group)),
               Placed(group[1].coordinates[2], "sin", n - 1, Len(group))>>]]

RECURSIVE SpreadGroups(_, _)
SpreadGroups(fs, keys) ==
  IF keys = <<>> THEN <<>>
  ELSE SpreadGroup(SelectSeq(fs, LAMBDA f : f.coordinates = Head(keys)))
         \o SpreadGroups(fs, Tail(keys))

spreadFeatures(fs) == SpreadGroups(fs, CoordKeys(fs, <<>>))

\* passes(score) of the filter and search effects; scores are in tenths
passes(mode, score) ==
  IF mode = "all" THEN TRUE
  ELSE IF mode = "smil" THEN score = 0 \/ score = 10
  ELSE IF mode = "strek" THEN score = 20
  ELSE IF mode = "sur" THEN score = 30
  ELSE TRUE

\* apply() of the filter effect, in the closure of `mode`: the data the map
\* source holds afterwards
apply(mode, src, full) ==
  IF ~IsSome(src) \/ ~IsSome(full) THEN src
  ELSE Some(SelectSeq(Val(full), LAMBDA f : passes(mode, f.smileScore)))

RECURSIVE ApplyEach(_, _, _)
ApplyEach(modes, src, full) ==
  IF modes = <<>> THEN src
  ELSE ApplyEach(Tail(modes), apply(Head(modes), src, full), full)

\* typeof c === "number": a coordinate that was null in the file is a number
\* only once spreadFeatures has added an offset to it
IsNumber(c) == ~(c.base = Undefined /\ c.axis = "none")

\* toLngLatTuple
toLngLatTuple(coords) ==
  IF Len(coords) < 2 THEN None
  ELSE IF ~IsNumber(coords[1]) \/ ~IsNumber(coords[2]) THEN None
  ELSE Some(<<coords[1], coords[2]>>)

\* the haystack of a feature
Hay(f) ==
  normalize(Join(FilterBoolean(<<Some(f.navn), Some(f.adresse),
                                 Some(IF IsSome(f.orgnummer) THEN Val(f.orgnummer) ELSE <<>>)>>),
                 <<" ", "|", " ">>))

SearchHit(f) ==
  [id |-> f.tilsynsobjektid, navn |-> f.navn, adresse |-> f.adresse,
   orgnummer |-> f.orgnummer, dato |-> f.dato, smileScore |-> f.smileScore,
   coords |-> Val(toLngLatTuple(f.coordinates))]

\* the loop of the search effect, which stops at ten hits
RECURSIVE SearchLoop(_, _, _, _)
SearchLoop(fs, q, mode, next) ==
  IF fs = <<>> THEN next
  ELSE LET f == Head(fs)
       IN IF ~passes(mode, f.smileScore) \/ ~IsSome(toLngLatTuple(f.coordinates))
             \/ ~Includes(Hay(f), q)
          THEN SearchLoop(Tail(fs), q, mode, next)
          ELSE IF Len(next) + 1 >= 10 THEN Append(next, SearchHit(f))
          ELSE SearchLoop(Tail(fs), q, mode, Append(next, SearchHit(f)))

\* The search effect for query `str` and mode `mode`: the timers afterwards.
SearchEffect(str, mode) ==
  IF ~IsSome(fullDataRef) THEN timers
  ELSE IF Len(normalize(str)) < 2 THEN Append(timers, <<>>)
  ELSE Append(timers, SearchLoop(Val(fullDataRef), normalize(str), mode, <<>>))

\* The map's "load" event: the handler of map.on("load", ...) runs up to its
\* fetch of the dataset, then the closures of map.once("load", ...) run.
MapLoad ==
  /\ ~mapLoaded
  /\ mapLoaded' = TRUE
  /\ fetching' = "pending"
  /\ source' = ApplyEach(loadOnce, source, fullDataRef)
  /\ loadOnce' = <<>>
  /\ UNCHANGED <<fullDataRef, filterMode, query, hits, selectedId, timers, events>>
  /\ UNCHANGED <<pure, pipeline>>

\* The rest of the load handler: /tilsyn.geojson (the file the pipeline wrote)
\* has arrived and parsed; without the file res.json() rejects and the handler
\* ends there.
DatasetResponse ==
  /\ fetching = "pending"
  /\ IF IsSome(diskOut)
     THEN LET enriched == spreadFeatures([k \in 1..Len(Val(diskOut)) |-> Enrich(Val(diskOut)[k])])
          IN /\ fullDataRef' = Some(enriched)
             /\ source' = Some(enriched)
             /\ fetching' = "done"
     ELSE /\ fetching' = "failed"
          /\ UNCHANGED <<fullDataRef, source>>
  /\ UNCHANGED <<mapLoaded, loadOnce, filterMode, query, hits, selectedId, timers, events>>
  /\ UNCHANGED <<pure, pipeline>>

\* onChange of the filter select, and the two effects that depend on
\* filterMode: the filter effect applies at once when the style is loaded and
\* waits for "load" otherwise; the search effect runs with the emptied query.
ChangeFilter ==
  /\ events < MaxEvents
  /\ events' = events + 1
  /\ \E mode \in FilterModes \ {filterMode} :
       /\ filterMode' = mode
       /\ query' = <<>>
       /\ hits' = <<>>
       /\ selectedId' = None
       /\ IF mapLoaded
          THEN source' = apply(mode, source, fullDataRef) /\ UNCHANGED loadOnce
          ELSE loadOnce' = Append(loadOnce, mode) /\ UNCHANGED source
       /\ timers' = SearchEffect(<<>>, mode)
  /\ UNCHANGED <<mapLoaded, fetching, fullDataRef>>
  /\ UNCHANGED <<pure, pipeline>>

\* The texts typed into the search box.
QueryPool == {<<"a">>, <<"a", "b">>, <<" ", "K", "A">>, <<"x", "y">>}

\* onChange of the search box, and the search effect
TypeQuery ==
  /\ events < MaxEvents
  /\ events' = events + 1
  /\ \E str \in QueryPool \ {query} :
       /\ query' = str
       /\ timers' = SearchEffect(str, filterMode)
  /\ UNCHANGED <<mapLoaded, loadOnce, fetching, fullDataRef, source, filterMode, hits, selectedId>>
  /\ UNCHANGED <<pure, pipeline>>

\* The oldest setTimeout callback runs: setHits(...)
TimerFires ==
  /\ timers # <<>>
  /\ hits' = Head(timers)
  /\ timers' = Tail(timers)
  /\ UNCHANGED <<mapLoaded, loadOnce, fetching, fullDataRef, source, filterMode, query,
                 selectedId, events>>
  /\ UNCHANGED <<pure, pipeline>>

\* click on a point of the layer "unclustered"
ClickPoint ==
  /\ events < MaxEvents
  /\ events' = events + 1
  /\ IsSome(source)
  /\ \E k \in 1..Len(Val(source)) : selectedId' = Some(Val(source)[k].tilsynsobjektid)
  /\ UNCHANGED <<mapLoaded, loadOnce, fetching, fullDataRef, source, filterMode, query, hits,
                 timers>>
  /\ UNCHANGED <<pure, pipeline>>

\* flyToHit: click on a displayed hit
FlyToHit ==
  /\ events < MaxEvents
  /\ events' = events + 1
  /\ \E k \in 1..Len(hits) : selectedId' = Some(hits[k].id)
  /\ hits' = <<>>
  /\ UNCHANGED <<mapLoaded, loadOnce, fetching, fullDataRef, source, filterMode, query, timers>>
  /\ UNCHANGED <<pure, pipeline>>

\* ------------------------------------------------------------------------
\* A pipeline run followed by the client's load of the file it wrote
\* ------------------------------------------------------------------------
RatingTexts ==
  { Some(<<"0">>), Some(<<"3">>), Some(<<"4">>), Some(<<"1", "2">>), Some(<<>>),
    Some(<<"x">>), None, Some(<<" ", "2", " ">>) }

Row_B_Plain == Row(Some(Str_B), None, Some(Dato_Short), Some(<<"2">>), Some(Adr_G1), None)

\* One row of A, or one row of A and one of B, with every text of the rating
\* field.
DisplayTables ==
  {<<[Row_A_Early EXCEPT !.total_karakter = t]>> : t \in RatingTexts}
    \cup {<<[Row_A_Early EXCEPT !.total_karakter = t],
            [Row_B_Plain EXCEPT !.total_karakter = u]>> : t \in RatingTexts, u \in RatingTexts}

InitDisplay ==
  /\ rows \in DisplayTables
  /\ budget = [runs |-> 1, aborts |-> 1]
  /\ PipelineIdle
  /\ ClientMounted
  /\ fnIn = None
  /\ fnOut = None

NextDisplay == Next \/ MapLoad \/ DatasetResponse

SpecDisplay == InitDisplay /\ [][NextDisplay]_vars

\* ------------------------------------------------------------------------
\* The map client over a file the pipeline wrote earlier
\* ------------------------------------------------------------------------
\* More features than the search shows hits.
DatasetSize == 12

Numeral(n) == CHOOSE c \in Digits : DigitVal(c) = n

\* The row behind the k-th feature of the file: names "Ka" and "Ba" in turn,
\* the ratings 0, 1, 2, 3 and a text that is no number in turn.
DatasetRow(k) ==
  [Row(Some(<<"E", Numeral(k \div 10), Numeral(k % 10)>>), None, Some(Dato_15012024),
       Some(IF k % 5 = 4 THEN <<"x">> ELSE <<Numeral(k % 5)>>), None, None)
     EXCEPT !.navn = Some(IF k % 2 = 1 THEN <<"K", "a">> ELSE <<"B", "a">>)]

\* Every address holds "Ab"; features 2j-1 and 2j are at the same place.
DatasetFeature(k) ==
  MakeFeature(DatasetRow(k), None, <<"A", "b", " ", Numeral(k \div 10), Numeral(k % 10)>>,
              "MAT", [lat |-> 60, lon |-> 10 + ((k + 1) \div 2)])

Dataset(n) == [k \in 1..n |-> DatasetFeature(k)]

\* No pipeline run takes place; public/tilsyn.geojson is there.
InitClient ==
  /\ rows = <<>>
  /\ budget = [runs |-> 0, aborts |-> 0]
  /\ run = 0
  /\ aborts = 0
  /\ pc = "idle"
  /\ latest = EmptyLatest
  /\ limited = <<>>
  /\ i = 1
  /\ brregCache = EmptyMap
  /\ geocodeCache = EmptyMap
  /\ features = <<>>
  /\ orgnr = None
  /\ bestAdresse = None
  /\ adresseKilde = "MAT"
  /\ geo = None
  /\ resp = None
  /\ diskBrreg = None
  /\ diskGeocode = None
  /\ diskOut \in {Some(Dataset(DatasetSize)), Some(Dataset(3)), None}
  /\ log = <<>>
  /\ ClientMounted
  /\ fnIn = None
  /\ fnOut = None

NextClient ==
  \/ MapLoad
  \/ DatasetResponse
  \/ ChangeFilter
  \/ TypeQuery
  \/ TimerFires
  \/ ClickPoint
  \/ FlyToHit

SpecClient == InitClient /\ [][NextClient]_vars

\* ------------------------------------------------------------------------
\* Vocabulary of the properties
\* ------------------------------------------------------------------------
\* main() is past the reduction of this run and has not aborted
Reduced == pc \in {"loop", "awaitU", "awaitE", "sleepB", "awaitG", "sleepG", "done"}

ReducedRows == FilterRows(rows)

IdOf(r) == Val(r.tilsynsobjektid)

SameId(key) == {k \in 1..Len(ReducedRows) : IdOf(ReducedRows[k]) = key}

\* Date a is later than date b; a date that did not parse to an integer is
\* earlier than every integer date.
Exceeds(a, b) == ~a.nan /\ (b.nan \/ a.v > b.v)

DateAt(k) == parseDato(ReducedRows[k].dato)

\* Row k is the latest-by-date row of entity `key`, the first one among
\* equally dated rows.
IsFirstLatest(k, key) ==
  /\ k \in SameId(key)
  /\ \A j \in SameId(key) : ~Exceeds(DateAt(j), DateAt(k))
  /\ \A j \in SameId(key) : j < k => Exceeds(DateAt(k), DateAt(j))

\* The rating a feature carries for a row's total_karakter field.
RatingOf(r) ==
  LET n == ToNumber(r.total_karakter) IN IF n.nan THEN -1 ELSE n.v

LogIndices(kind) == {k \in 1..Len(log) : log[k].kind = kind}

\* Run n ended in main().catch after issuing a request.
RunAborted(n) == \E k \in 1..Len(log) : log[k].run = n /\ log[k].res = "throw"

\* ------------------------------------------------------------------------
\* Properties
\* ------------------------------------------------------------------------
\* C1: once the reduction has consumed the whole table, every entity id of a
\* reduced row has a stored record, and that record is the row whose parsed
\* date is maximal among the reduced rows of the id, the first such row in
\* input order.
C1_StoredIsFirstLatest ==
  Reduced =>
    /\ \A k \in 1..Len(ReducedRows) : IdOf(ReducedRows[k]) \in DOMAIN latest.map
    /\ \A key \in DOMAIN latest.map :
         \E k \in SameId(key) :
           IsFirstLatest(k, key) /\ latest.map[key] = ReducedRows[k]

\* C2: after a completed run no two features share an entity id, and every
\* feature carries the date string and the rating of the latest-by-date row
\* of its entity.
C2_OneFeaturePerEntityFromLatest ==
  pc = "done" =>
    /\ \A a, b \in 1..Len(features) :
         features[a].tilsynsobjektid = features[b].tilsynsobjektid => a = b
    /\ \A a \in 1..Len(features) :
         \E k \in SameId(features[a].tilsynsobjektid) :
           /\ IsFirstLatest(k, features[a].tilsynsobjektid)
           /\ features[a].dato = Val(ReducedRows[k].dato)
           /\ features[a].karakter = RatingOf(ReducedRows[k])

\* The request logged at k was answered (it did not reject).
Answered(k) == log[k].res \in {"hit", "miss", "error"}

\* Run n ran to its end and wrote its files.
RunCompleted(n) == ~RunAborted(n) /\ (n < run \/ (n = run /\ pc = "done"))

\* The record the loop is about to resolve an address for, in this step.
AddressStep ==
  \/ pc = "sleepB"
  \/ pc = "loop" /\ i <= Len(limited) /\ ~NeedsLookup(OrgnrOf(limited[i]), brregCache)

StepOrgnr == IF pc = "sleepB" THEN orgnr ELSE OrgnrOf(limited[i])

StepAddress == ResolveAddress(limited[i], StepOrgnr, brregCache).adresse

\* A 2xx answer whose body is a record with a populated organization number.
RecordWithOrgnr(res) ==
  /\ res.status \in 200..299
  /\ IsSome(res.body)
  /\ IsSome(Val(res.body).organisasjonsnummer)
  /\ Val(Val(res.body).organisasjonsnummer) # <<>>

\* A 2xx answer whose first result has a representative point with numeric
\* latitude and longitude.
AnswersCoordinate(res) ==
  /\ res.status \in 200..299
  /\ IsSome(res.body)
  /\ IsSome(Val(res.body).adresser)
  /\ Len(Val(Val(res.body).adresser)) > 0
  /\ IsSome(Val(Val(res.body).adresser)[1].representasjonspunkt)
  /\ Val(Val(Val(res.body).adresser)[1].representasjonspunkt).lat.isNumber
  /\ Val(Val(Val(res.body).adresser)[1].representasjonspunkt).lon.isNumber

NineDigits(str) == Len(str) = 9 /\ \A k \in 1..9 : str[k] \in Digits

\* C3 (as stated): no two external geocoding calls carry the same normalized
\* address.
C3_OneCallPerNormalizedAddress ==
  \A a, b \in LogIndices("G") : log[a].query = log[b].query => a = b

\* C3 (amended): once a geocoding call for an exact address string has returned
\* a coordinate, no further call is made for that string in the same run, nor
\* in any later run unless the run of the first call aborted; the geocode
\* delay happens only right after an answered call, and every feature whose
\* address is not a name objects inherit carries the coordinate cached under
\* its address.
C3_OneCallPerCachedExactAddress ==
  /\ \A a, b \in LogIndices("G") :
       (a < b /\ log[a].key = log[b].key /\ log[a].res = "hit")
         => (log[a].run # log[b].run /\ RunAborted(log[a].run))
  /\ \A k \in LogIndices("sleepG") :
       k > 1 /\ log[k - 1].kind = "G" /\ log[k - 1].key = log[k].key /\ Answered(k - 1)
  /\ \A a \in 1..Len(features) :
       features[a].adresse \notin ObjectPrototypeKeys
         => /\ features[a].adresse \in DOMAIN geocodeCache
            /\ features[a].coordinates = <<geocodeCache[features[a].adresse].lon,
                                           geocodeCache[features[a].adresse].lat>>

\* Two records of one run resolve to the same address, and one call served both.
C3_Witness ==
  /\ pc = "done"
  /\ Len(features) = 2
  /\ features[1].adresse = features[2].adresse
  /\ Cardinality({k \in LogIndices("G") : log[k].key = features[1].adresse}) = 1

\* C4: a record whose resolved address is a key of the geocode cache is
\* finished in the same step: nothing is requested, no delay is taken, the
\* cache is unchanged and the feature pushed carries the cached coordinate.
C4_GeocodeCacheHitFrame ==
  [][ (AddressStep /\ IsSome(StepAddress) /\ Val(StepAddress) \in DOMAIN geocodeCache)
        => /\ log' = log
           /\ geocodeCache' = geocodeCache
           /\ pc' = "loop" /\ i' = i + 1
           /\ Len(features') = Len(features) + 1
           /\ SubSeq(features', 1, Len(features)) = features
           /\ features'[Len(features')].adresse = Val(StepAddress)
           /\ features'[Len(features')].coordinates =
                <<geocodeCache[Val(StepAddress)].lon, geocodeCache[Val(StepAddress)].lat>>
    ]_vars

\* A second run emitted a feature from the persisted cache without any request.
C4_Witness ==
  /\ run = 2
  /\ pc = "done"
  /\ Len(features) > 0
  /\ \A k \in 1..Len(log) : log[k].run = 2 => log[k].kind \notin {"G", "sleepG"}
  /\ \E k \in LogIndices("G") : log[k].run = 1 /\ log[k].key = features[1].adresse

\* C5: when the geocoder's answer holds no coordinate, the geocode cache is
\* left as it was and the record yields no feature; an address without a
\* cache entry (and that is not a name objects inherit) is requested whenever
\* a record resolves to it, so the address of a failed request is requested
\* again.
C5_FailedGeocodeDropsAndRetries ==
  /\ [][ /\ (pc = "awaitG" /\ pc' = "sleepG" /\ ~AnswersCoordinate(Val(resp')))
              => (geocodeCache' = geocodeCache /\ features' = features)
         /\ (pc = "sleepG" /\ ~AnswersCoordinate(Val(resp)))
              => (features' = features /\ geocodeCache' = geocodeCache
                    /\ pc' = "loop" /\ i' = i + 1)
         /\ (AddressStep /\ IsSome(StepAddress) /\ Val(StepAddress) \notin DOMAIN geocodeCache
               /\ Val(StepAddress) \notin ObjectPrototypeKeys)
              => (pc' = "awaitG" /\ Len(log') = Len(log) + 1
                    /\ log'[Len(log')].kind = "G" /\ log'[Len(log')].key = Val(StepAddress))
       ]_vars
  /\ [](\A k \in LogIndices("G") :
          (log[k].res = "miss" /\ log[k].run = run /\ pc # "aborted")
            => \/ log[k].key \notin DOMAIN geocodeCache
               \/ \E j \in LogIndices("G") :
                    j > k /\ log[j].key = log[k].key /\ log[j].res = "hit")

\* A request answered without a coordinate in run 1 left nothing behind, and
\* run 2 asked again for the same address.
C5_Witness ==
  /\ run = 2
  /\ \E a, b \in LogIndices("G") :
       /\ log[a].run = 1 /\ log[a].res = "miss" /\ RunCompleted(1)
       /\ log[b].run = 2 /\ log[b].key = log[a].key /\ Answered(b)
  /\ IsSome(diskOut) /\ Val(diskOut) = <<>>

\* C6 (as stated): over all records and runs each organization number is
\* looked up at most once.
C6_EachOrgnrLookedUpOnce ==
  \A a, b \in LogIndices("U") : log[a].key = log[b].key => a = b

\* C6 (amended): a number that is a key of the registry cache, whether it maps
\* to an entity or to null, is not requested and costs no registry delay; so a
\* number is looked up at most once per run, and again in a later run only if
\* the run that looked it up aborted before writing the cache.
C6_NoLookupForCachedOrgnr ==
  /\ \A a, b \in LogIndices("U") :
       (a < b /\ log[a].key = log[b].key)
         => (log[a].run # log[b].run /\ RunAborted(log[a].run))
  /\ \A k \in LogIndices("sleepB") :
       k > 1 /\ log[k - 1].kind \in {"U", "E"} /\ log[k - 1].key = log[k].key /\ Answered(k - 1)
  /\ \A k \in LogIndices("U") \cup LogIndices("E") \cup LogIndices("sleepB") :
       (log[k].run = run /\ pc \notin {"done", "aborted"})
         => log[k].key \notin DOMAIN LoadCache(diskBrreg)

\* Run 2 processed a record whose number the persisted cache maps to null, and
\* asked the registry nothing.
C6_Witness ==
  /\ run = 2
  /\ pc = "done"
  /\ \E n \in 1..Len(limited) :
       /\ IsSome(OrgnrOf(limited[n]))
       /\ Val(OrgnrOf(limited[n])) \in DOMAIN brregCache
       /\ brregCache[Val(OrgnrOf(limited[n]))] = None
       /\ \E k \in LogIndices("U") : log[k].run = 1 /\ log[k].key = Val(OrgnrOf(limited[n]))
  /\ \A k \in 1..Len(log) : log[k].run = 2 => log[k].kind \notin {"U", "E", "sleepB"}

\* C7: right after a registry lookup the cache maps the number to what the
\* resolver returned (the record with a populated number, else null, be it the
\* null of a 404 or of an error); every number looked up in a run that
\* completed is in the persisted cache with the outcome of its lookup, and is
\* not looked up in a later run.
C7_LookupResultCachedAndPersisted ==
  /\ pc = "sleepB" =>
       /\ Val(orgnr) \in DOMAIN brregCache
       /\ brregCache[Val(orgnr)] =
            IF RecordWithOrgnr(Val(resp)) THEN Val(resp).body ELSE None
  /\ \A k \in LogIndices("U") \cup LogIndices("E") :
       RunCompleted(log[k].run)
         => /\ log[k].key \in DOMAIN LoadCache(diskBrreg)
            /\ log[k].res = "hit" => IsSome(LoadCache(diskBrreg)[log[k].key])
            /\ (log[k].kind = "E" /\ log[k].res \in {"miss", "error"})
                 => LoadCache(diskBrreg)[log[k].key] = None
  /\ \A a, b \in LogIndices("U") :
       (log[a].key = log[b].key /\ log[a].run < log[b].run) => ~RunCompleted(log[a].run)

\* The main endpoint answered 500 in run 1, the null was persisted, and run 2
\* processed the same number without a lookup.
C7_Witness ==
  /\ run = 2
  /\ pc = "done"
  /\ \E k \in LogIndices("E") :
       /\ log[k].run = 1 /\ log[k].res = "error"
       /\ Val(diskBrreg)[log[k].key] = None
       /\ \E n \in 1..Len(limited) : OrgnrOf(limited[n]) = Some(log[k].key)
  /\ \A k \in LogIndices("U") : log[k].run = 1

\* A 2xx answer that carries a record.
LookupSucceeds(res) == res.status \in 200..299 /\ IsSome(res.body)

\* The last request logged is the one to the main-entity endpoint.
MainQueried(l) == Len(l) > 0 /\ l[Len(l)].kind = "E" /\ l[Len(l)].res = "pending"

\* C8 (as stated): when the sub-entity endpoint answers a record with a
\* populated organization number, that record is cached and the main-entity
\* endpoint is not queried; otherwise the main-entity endpoint is queried and
\* its record is the result whenever that lookup succeeds, null otherwise.
C8_SubEntityFirstThenMainIfSucceeds ==
  [][ /\ (pc = "awaitU" /\ pc' # "aborted")
           => IF RecordWithOrgnr(Val(resp'))
              THEN /\ pc' = "sleepB"
                   /\ brregCache' = Put(brregCache, Val(orgnr), Val(resp').body)
                   /\ ~MainQueried(log')
              ELSE pc' = "awaitE" /\ MainQueried(log') /\ brregCache' = brregCache
      /\ (pc = "awaitE" /\ pc' # "aborted")
           => brregCache' = Put(brregCache, Val(orgnr),
                                IF LookupSucceeds(Val(resp')) THEN Val(resp').body ELSE None)
    ]_vars

\* C8 (amended): as above, but the main-entity record is the result only when
\* it carries a populated organization number; a record without one gives
\* null.
C8_SubEntityFirstThenMainWithOrgnr ==
  [][ /\ (pc = "awaitU" /\ pc' # "aborted")
           => IF RecordWithOrgnr(Val(resp'))
              THEN /\ pc' = "sleepB"
                   /\ brregCache' = Put(brregCache, Val(orgnr), Val(resp').body)
                   /\ ~MainQueried(log')
              ELSE pc' = "awaitE" /\ MainQueried(log') /\ brregCache' = brregCache
      /\ (pc = "awaitE" /\ pc' # "aborted")
           => /\ pc' = "sleepB"
              /\ brregCache' = Put(brregCache, Val(orgnr),
                                   IF RecordWithOrgnr(Val(resp')) THEN Val(resp').body ELSE None)
    ]_vars

\* The sub-entity endpoint answered a record and the main-entity endpoint,
\* which holds a different record, was not asked.
C8_Witness ==
  /\ pc = "sleepB"
  /\ Val(resp).body = Some(Entity_Belig)
  /\ brregCache[Val(orgnr)] = Some(Entity_Belig)
  /\ log[Len(log) - 1].kind = "U"
  /\ LogIndices("E") = {}

\* The trimmed organization number of a row when it is exactly nine digits.
ValidNumber(m) == IsSome(m) /\ NineDigits(Trim(Val(m)))

\* C9: registry requests, registry delays and registry cache keys exist only
\* for trimmed nine-digit numbers, each request of the run being for the
\* trimmed number of its record; a feature of a record with a valid number
\* carries the trimmed number, which is a cache key, and a feature of any other
\* record carries null.
C9_OnlyValidOrgnrReachesRegistry ==
  /\ \A k \in LogIndices("U") \cup LogIndices("E") \cup LogIndices("sleepB") :
       NineDigits(log[k].key)
  /\ \A key \in DOMAIN brregCache \cup DOMAIN LoadCache(diskBrreg) : NineDigits(key)
  /\ Reduced =>
       /\ \A k \in LogIndices("U") \cup LogIndices("E") \cup LogIndices("sleepB") :
            log[k].run = run =>
              /\ ValidNumber(limited[log[k].rec].orgnummer)
              /\ log[k].key = Trim(Val(limited[log[k].rec].orgnummer))
       /\ \A a \in 1..Len(features) :
            LET number == latest.map[features[a].tilsynsobjektid].orgnummer
            IN IF ValidNumber(number)
               THEN /\ features[a].orgnummer = Some(Trim(Val(number)))
                    /\ Trim(Val(number)) \in DOMAIN brregCache
               ELSE features[a].orgnummer = None

\* One feature from a row with a padded valid number, one from a row whose
\* number has eight digits; only the first went to the registry.
C9_Witness ==
  /\ pc = "done"
  /\ Len(features) = 2
  /\ latest.map[features[1].tilsynsobjektid].orgnummer = Some(Orgnr_1_Padded)
  /\ features[1].orgnummer = Some(Orgnr_1)
  /\ latest.map[features[2].tilsynsobjektid].orgnummer = Some(Orgnr_8Digits)
  /\ features[2].orgnummer = None
  /\ \A k \in LogIndices("U") : log[k].key = Orgnr_1

\* The non-empty strings of a list, in order.
NonEmpty(parts) == SelectSeq(parts, LAMBDA x : x # <<>>)

\* The strings of a list written one after the other with sep in between.
RECURSIVE Glue(_, _)
Glue(parts, sep) ==
  IF Len(parts) = 0 THEN <<>>
  ELSE IF Len(parts) = 1 THEN parts[1]
  ELSE Glue(SubSeq(parts, 1, Len(parts) - 1), sep) \o sep \o parts[Len(parts)]

Present(m) == IF IsSome(m) THEN Val(m) ELSE <<>>

CommaSpace == <<",", " ">>

\* The formatting as stated: the components are joined as they are.
FormatAsStated(addr) ==
  LET street == Glue(NonEmpty(addr.adresse), CommaSpace)
      place == Glue(NonEmpty(<<Present(addr.postnummer), Present(addr.poststed)>>), <<" ">>)
      full == Glue(NonEmpty(<<street, place>>), CommaSpace)
  IN IF full = <<>> THEN None ELSE Some(full)

\* The formatting with the trimming: postal code and place name are trimmed
\* before they are joined, and each group and the result are trimmed.
FormatTrimmed(addr) ==
  LET street == Trim(Glue(NonEmpty(addr.adresse), CommaSpace))
      place == Trim(Glue(NonEmpty(<<Trim(Present(addr.postnummer)),
                                    Trim(Present(addr.poststed))>>), <<" ">>))
      full == Trim(Glue(NonEmpty(<<street, place>>), CommaSpace))
  IN IF full = <<>> THEN None ELSE Some(full)

\* C10 (as stated): the result is the non-empty street lines joined with ", ",
\* the non-empty postal code and place name joined with a blank, the two
\* non-empty groups joined with ", "; null when that is empty.
C10_FormatJoinsComponents ==
  IsSome(fnOut) => Val(fnOut) = FormatAsStated(Val(fnIn))

\* C10 (amended): the same joins, with postal code and place name trimmed
\* first and the street group, the postal group and the result trimmed of
\* surrounding blanks; the result is null when nothing is left after the
\* trimming, as when every street line is empty and postal code and place name
\* are empty or blank, and it is never the empty string.
C10_FormatJoinsTrimmedComponents ==
  IsSome(fnOut) =>
    /\ Val(fnOut) = FormatTrimmed(Val(fnIn))
    /\ Val(fnOut) # Some(<<>>)
    /\ (\A k \in 1..Len(Val(fnIn).adresse) : Val(fnIn).adresse[k] = <<>>)
          /\ Trim(Present(Val(fnIn).postnummer)) = <<>>
          /\ Trim(Present(Val(fnIn).poststed)) = <<>>
        => Val(fnOut) = None

\* lines ["Storgata 1"], postal "0150", place "Oslo" gave "Storgata 1, 0150 Oslo"
C10_Witness ==
  /\ fnIn = Some([adresse |-> <<Str_Storgata1>>, postnummer |-> Some(Str_0150),
                  poststed |-> Some(Str_Oslo)])
  /\ fnOut = Some(Some(Str_Storgata1 \o <<",", " ">> \o Str_0150 \o <<" ">> \o Str_Oslo))

\* The raw address-line and postal fields of a row that are not empty.
RawFields(r) ==
  NonEmpty(<<Present(r.adrlinje1), Present(r.adrlinje2), Present(r.postnr),
             Present(r.poststed)>>)

\* The formatted address of the entity the registry cache holds for the valid
\* number of a row; null when the number is absent or invalid, the entity is
\* null or it has no usable address.
CachedEntityAddress(r) ==
  IF ~ValidNumber(r.orgnummer) \/ Trim(Val(r.orgnummer)) \notin DOMAIN brregCache
  THEN None
  ELSE LET entity == brregCache[Trim(Val(r.orgnummer))]
       IN IF ~IsSome(entity) \/ ~IsSome(pickBrregAdresse(Val(entity))) THEN None
          ELSE formatBrregAdresse(Val(pickBrregAdresse(Val(entity))))

\* The entries the current run logged for the record at position n.
RecordEntries(n) == {k \in 1..Len(log) : log[k].run = run /\ log[k].rec = n}

FeaturesOf(id) == {a \in 1..Len(features) : features[a].tilsynsobjektid = id}

\* C11: a record for which neither path yields an address is finished in the
\* step that finds this out: no feature is pushed, nothing is requested from
\* the geocoder, no geocode delay is taken and the geocode cache is unchanged;
\* in particular a record with no valid organization number and empty raw
\* address fields has no feature and no request of any kind.
C11_NoAddressNoFeatureNoGeocode ==
  /\ [][ (AddressStep /\ ~IsSome(StepAddress))
           => /\ features' = features
              /\ geocodeCache' = geocodeCache
              /\ log' = log
              /\ pc' = "loop" /\ i' = i + 1
       ]_vars
  /\ [](Reduced =>
          \A n \in 1..Len(limited) :
            (~ValidNumber(limited[n].orgnummer) /\ RawFields(limited[n]) = <<>>)
              => /\ FeaturesOf(IdOf(limited[n])) = {}
                 /\ RecordEntries(n) = {})

\* A completed run over two entities: the one with no organization number and
\* empty raw fields left nothing, the other one was emitted.
C11_Witness ==
  /\ pc = "done"
  /\ Len(limited) = 2
  /\ Len(features) = 1
  /\ \E n \in 1..2 :
       /\ ~IsSome(limited[n].orgnummer)
       /\ RawFields(limited[n]) = <<>>
       /\ FeaturesOf(IdOf(limited[n])) = {}
       /\ RecordEntries(n) = {}

\* C12 (as stated): a feature is tagged BRREG exactly when its address is the
\* non-null formatted address of the cached registry entity of its valid
\* number; otherwise its address is the non-empty raw fields joined with ", "
\* and its tag is MAT.
C12_SourceTagAndJoinedFallback ==
  Reduced =>
    \A a \in 1..Len(features) :
      LET r == latest.map[features[a].tilsynsobjektid]
          registry == CachedEntityAddress(r)
      IN IF IsSome(registry)
         THEN features[a].adresse = Val(registry) /\ features[a].adressekilde = "BRREG"
         ELSE /\ features[a].adresse = Glue(RawFields(r), CommaSpace)
              /\ features[a].adressekilde = "MAT"

\* C12 (amended): as above, the fallback address being the join of the
\* non-empty raw fields trimmed of surrounding blanks.
C12_SourceTagAndTrimmedFallback ==
  Reduced =>
    \A a \in 1..Len(features) :
      LET r == latest.map[features[a].tilsynsobjektid]
          registry == CachedEntityAddress(r)
      IN IF IsSome(registry)
         THEN features[a].adresse = Val(registry) /\ features[a].adressekilde = "BRREG"
         ELSE /\ features[a].adresse = Trim(Glue(RawFields(r), CommaSpace))
              /\ features[a].adressekilde = "MAT"

\* One feature took the fallback address of a row whose address line ends in a
\* blank, the other the registry address of its entity.
C12_Witness ==
  /\ pc = "done"
  /\ Len(features) = 2
  /\ features[1].adressekilde = "MAT"
  /\ latest.map[features[1].tilsynsobjektid].adrlinje1 = Some(Adr_G1_Trailing)
  /\ features[1].adresse = Adr_G1
  /\ features[2].adressekilde = "BRREG"
  /\ IsSome(brregCache[Val(features[2].orgnummer)])

\* The rating the field of a row stands for: the integer its trimmed text
\* spells, and -1 when the text is absent, empty or not a number.
StatedRating(r) ==
  LET t == Trim(Present(r.total_karakter))
  IN IF t # <<>> /\ AllDigits(t) THEN DecimalValue(t) ELSE -1

\* C13: every record whose address and coordinate resolved is emitted, and its
\* feature carries the integer the total-rating field parses to, -1 when the
\* field is empty or not numeric.
C13_RatingParsedOrSentinel ==
  Reduced =>
    \A a \in 1..Len(features) :
      features[a].karakter = StatedRating(latest.map[features[a].tilsynsobjektid])

\* The integer whose decimal digits are year, month, day of an 8-digit
\* day-month-year string.
YearMonthDay(str) ==
  DecimalValue(SubSeq(str, 5, 8)) * 10000 + DecimalValue(SubSeq(str, 3, 4)) * 100
    + DecimalValue(SubSeq(str, 1, 2))

\* C14: date parsing gives the integer year-month-day for a string of 8
\* digits and the integer 0 for every other string (another length, or 8
\* characters that are not all digits).
C14_ParseDatoIntegerOrZero ==
  IsSome(fnOut) =>
    LET str == Present(Val(fnIn))
    IN IF Len(str) = 8 /\ AllDigits(str)
       THEN Val(fnOut) = Num(YearMonthDay(str))
       ELSE Val(fnOut) = Num(0)

\* C19: the address chosen for an entity is its operating-location address
\* when it has one, otherwise its registered-office address when it has one,
\* otherwise null.
C19_OperatingLocationFirst ==
  IsSome(fnOut) =>
    LET entity == Val(fnIn)
    IN Val(fnOut) =
         IF entity.beliggenhetsadresse # None THEN entity.beliggenhetsadresse
         ELSE IF entity.forretningsadresse # None THEN entity.forretningsadresse
         ELSE None

\* An entity with no operating-location address got its registered-office
\* address.
C19_Witness ==
  /\ IsSome(fnIn)
  /\ Val(fnIn).beliggenhetsadresse = None
  /\ Val(fnIn).forretningsadresse = Some(Addr_Paren)
  /\ fnOut = Some(Some(Addr_Paren))

\* A field qualifies when it parses to a finite number from 0 to 3.
Qualifies(f) ==
  IsSome(toNumberMaybe(f)) /\ Val(toNumberMaybe(f)) >= 0 /\ Val(toNumberMaybe(f)) <= 30

\* The values (in tenths) of the per-criterion fields that qualify.
QualifyingValues(p) ==
  {Val(toNumberMaybe(p.raws[k])) : k \in {j \in 1..Len(p.raws) : Qualifies(p.raws[j])}}

Greatest(S) == CHOOSE m \in S : \A x \in S : x <= m

\* The unknown rating, -1, in tenths.
Unknown == 0 - 10

\* C15: when some per-criterion field qualifies, the derived rating is the
\* greatest qualifying value, whatever the legacy field and the other
\* criteria hold; when none does, it is the legacy field if that qualifies and
\* unknown otherwise.
C15_MaxOfQualifyingElseLegacy ==
  IsSome(fnOut) =>
    LET p == Val(fnIn)
    IN Val(fnOut) =
         IF QualifyingValues(p) # {} THEN Greatest(QualifyingValues(p))
         ELSE IF Qualifies(p.karakter) THEN Val(toNumberMaybe(p.karakter))
         ELSE Unknown

\* Criteria "1" and 2 in this order, with legacy rating " 3": the rating is 2.
C15_Witness ==
  /\ IsSome(fnIn)
  /\ Val(fnIn).raws[3] = TextField(<<"1">>)
  /\ Val(fnIn).raws[7] = NumberField(20)
  /\ Val(fnIn).karakter = TextField(<<" ", "3">>)
  /\ fnOut = Some(20)

\* C16: the derived rating is 0, 1, 2 or 3, or the unknown sentinel.
C16_RatingInRange ==
  IsSome(fnOut) => Val(fnOut) \in {0, 10, 20, 30, Unknown}

\* Every key of `old` is a key of `new`, with the same value.
KeptIn(old, new) == \A k \in DOMAIN old : k \in DOMAIN new /\ new[k] = old[k]

\* The entries a cache file holds; none when the file does not exist.
Persisted(file) == IF file = None THEN EmptyMap ELSE file[1]

\* C17: no step takes a key out of a persisted cache or changes the value
\* under a key it holds, so over completed runs both key sets only grow; and
\* the caches a run holds in memory extend the persisted ones.
C17_PersistedCachesOnlyGrow ==
  /\ [][ /\ KeptIn(Persisted(diskBrreg), Persisted(diskBrreg'))
         /\ KeptIn(Persisted(diskGeocode), Persisted(diskGeocode'))
       ]_vars
  /\ [](Reduced => /\ KeptIn(Persisted(diskBrreg), brregCache)
                   /\ KeptIn(Persisted(diskGeocode), geocodeCache))

\* Run 1 persisted the coordinate of one address; run 2 kept it and added the
\* coordinate of another one.
C17_Witness ==
  /\ run = 2
  /\ pc = "done"
  /\ RunCompleted(1)
  /\ \E a, b \in LogIndices("G") :
       /\ log[a].run = 1 /\ log[a].res = "hit"
       /\ log[b].run = 2 /\ log[b].res = "hit"
       /\ log[a].key # log[b].key
       /\ {log[a].key, log[b].key} \subseteq DOMAIN Val(diskGeocode)

\* C18: the step in which a run aborts leaves the two cache files and the
\* output file as they are; what the aborted run had requested is in neither
\* persisted cache.
C18_AbortLeavesFilesUntouched ==
  /\ [][ pc' = "aborted"
           => /\ diskBrreg' = diskBrreg
              /\ diskGeocode' = diskGeocode
              /\ diskOut' = diskOut
       ]_vars
  /\ [](pc = "aborted" =>
          \A k \in 1..Len(log) :
            log[k].run = run =>
              /\ log[k].kind = "U" => log[k].key \notin DOMAIN Persisted(diskBrreg)
              /\ log[k].kind = "G" => log[k].key \notin DOMAIN Persisted(diskGeocode))

\* Run 2 obtained a coordinate and then aborted: the files of run 1 are there
\* and the new coordinate is not in them.
C18_Witness ==
  /\ run = 2
  /\ pc = "aborted"
  /\ IsSome(diskGeocode) /\ IsSome(diskBrreg) /\ IsSome(diskOut)
  /\ \E k \in LogIndices("G") :
       /\ log[k].run = 2 /\ log[k].res = "hit"
       /\ log[k].key \notin DOMAIN Val(diskGeocode)

\* The requests whose answer is outstanding.
Outstanding == {k \in 1..Len(log) : log[k].res = "pending"}

\* This step issues a request of the given kind.
Issues(kind) ==
  /\ Len(log') = Len(log) + 1
  /\ log'[Len(log')].kind = kind
  /\ log'[Len(log')].res = "pending"

\* C20: at most one request is outstanding, and it is the last thing the run
\* did; the requests and delays of a run are in the order of its records; when
\* the loop takes up a record, every request and delay of the run belongs to
\* an earlier record and is over; a request is issued only from the loop, upon
\* the answer of the sub-entity endpoint, or when the registry delay of its
\* record is over, and never while another request is outstanding.
C20_OneRequestAtATimeInRecordOrder ==
  /\ [](/\ Cardinality(Outstanding) <= 1
        /\ Outstanding # {} <=> pc \in {"awaitU", "awaitE", "awaitG"}
        /\ Outstanding \subseteq {Len(log)}
        /\ \A a, b \in 1..Len(log) :
             (a < b /\ log[a].run = log[b].run) => log[a].rec <= log[b].rec
        /\ pc = "loop" => \A k \in 1..Len(log) : log[k].run = run => log[k].rec < i)
  /\ [][ /\ Issues("U") => (pc = "loop" /\ Outstanding = {})
         /\ Issues("E") => (pc = "awaitU" /\ log[Len(log)].kind = "U"
                              /\ log'[Len(log)].res # "pending")
         /\ Issues("G") => (pc \in {"loop", "sleepB"} /\ Outstanding = {})
         /\ (Issues("U") \/ Issues("E") \/ Issues("G"))
              => (log'[Len(log')].rec = i /\ log'[Len(log')].run = run)
       ]_vars

\* A completed run looked up and geocoded two records, one after the other.
C20_Witness ==
  /\ pc = "done"
  /\ Len(features) = 2
  /\ \A n \in 1..2 : {"U", "sleepB", "G", "sleepG"} \subseteq {log[k].kind : k \in RecordEntries(n)}

\* The entry after entry k of the history is of one of the given kinds, for
\* the same key and by the same run.
FollowedBy(k, kinds) ==
  /\ k < Len(log)
  /\ log[k + 1].kind \in kinds
  /\ log[k + 1].key = log[k].key
  /\ log[k + 1].run = log[k].run
  /\ log[k + 1].rec = log[k].rec

\* C21: in the history of a run, an answered request to the sub-entity endpoint
\* is followed at once by the registry delay of its number or, when it gave no
\* record, by the request to the main-entity endpoint; an answered request to
\* the main-entity endpoint is followed at once by the registry delay; an
\* answered geocoding request, with or without a coordinate, is followed at
\* once by the geocode delay; while a delay lasts no request is outstanding;
\* every request of a run but its first comes right after a delay, or is the
\* main-entity request of a lookup under way; a request that rejects is the
\* last thing its run did.
C21_DelayAfterEveryLookup ==
  /\ \A k \in 1..Len(log) :
       /\ (log[k].kind = "U" /\ log[k].res = "hit") => FollowedBy(k, {"sleepB"})
       /\ (log[k].kind = "U" /\ log[k].res = "miss") => FollowedBy(k, {"E"})
       /\ (log[k].kind = "E" /\ Answered(k)) => FollowedBy(k, {"sleepB"})
       /\ (log[k].kind = "G" /\ Answered(k)) => FollowedBy(k, {"sleepG"})
       /\ log[k].res = "throw" => (k = Len(log) \/ log[k + 1].run # log[k].run)
       /\ (log[k].kind \in {"U", "G"} /\ k > 1 /\ log[k - 1].run = log[k].run)
            => log[k - 1].kind \in {"sleepB", "sleepG"}
       /\ log[k].kind = "E"
            => (k > 1 /\ log[k - 1].kind = "U" /\ log[k - 1].key = log[k].key
                  /\ log[k - 1].run = log[k].run)
  /\ pc \in {"sleepB", "sleepG"}
       => /\ Outstanding = {}
          /\ log[Len(log)].kind = pc
          /\ log[Len(log)].run = run

\* A completed run in which the geocoder answered null for the first record,
\* and the registry, asked on both endpoints, null for the second: each was
\* followed by its delay before the next request went out.
C21_Witness ==
  /\ pc = "done"
  /\ \E k \in LogIndices("G") :
       /\ log[k].res = "miss"
       /\ Len(log) >= k + 6
       /\ log[k + 1].kind = "sleepG"
       /\ log[k + 2].kind = "U" /\ log[k + 2].res = "miss"
       /\ log[k + 3].kind = "E" /\ log[k + 3].res \in {"miss", "error"}
       /\ log[k + 4].kind = "sleepB"
       /\ log[k + 5].kind = "G"
       /\ log[k + 6].kind = "sleepG"

\* The positions of the reduced rows at which an entity id appears for the
\* first time.
FirstAppearances ==
  {k \in 1..Len(ReducedRows) : \A j \in 1..(k - 1) : IdOf(ReducedRows[j]) # IdOf(ReducedRows[k])}

\* The id of the n-th entity in order of first appearance.
EntityAt(n) ==
  IdOf(ReducedRows[CHOOSE k \in FirstAppearances :
                     Cardinality({j \in FirstAppearances : j <= k}) = n])

Smaller(a, b) == IF a < b THEN a ELSE b

\* C22: the records a run processes are the stored records of the first
\* min(MAX_FEATURES, n) of the n reduced entities in order of first appearance
\* of their id; every request and delay of the run and every feature belongs
\* to one of them, no entity beyond them has a feature, and there are at most
\* MAX_FEATURES features.
C22_FirstEntitiesOnly ==
  Reduced =>
    /\ Len(limited) = Smaller(MAX_FEATURES, Cardinality(FirstAppearances))
    /\ \A n \in 1..Len(limited) : limited[n] = latest.map[EntityAt(n)]
    /\ \A k \in 1..Len(log) : log[k].run = run => log[k].rec \in 1..Len(limited)
    /\ \A a \in 1..Len(features) :
         \E n \in 1..Len(limited) : features[a].tilsynsobjektid = EntityAt(n)
    /\ \A n \in 1..Cardinality(FirstAppearances) :
         n > MAX_FEATURES => FeaturesOf(EntityAt(n)) = {}
    /\ Len(features) <= MAX_FEATURES

\* A completed run over rows of A, B, A, C in which the second row of A
\* replaced the first: A and B were processed in this order and emitted, C
\* was not.
C22_Witness ==
  /\ pc = "done"
  /\ Len(ReducedRows) = 4
  /\ Cardinality(FirstAppearances) = 3
  /\ Len(limited) = 2
  /\ limited[1] = ReducedRows[3]
  /\ limited[1] # ReducedRows[1]
  /\ IdOf(limited[2]) = Str_B
  /\ Len(features) = 2
  /\ features[1].tilsynsobjektid = Str_A
  /\ features[2].tilsynsobjektid = Str_B
  /\ FeaturesOf(Str_C) = {}

\* A row lacks its entity id, its date or its name: the field is absent or
\* the empty string.
Incomplete(r) ==
  Present(r.tilsynsobjektid) = <<>> \/ Present(r.dato) = <<>> \/ Present(r.navn) = <<>>

\* The rows of the table that lack none of the three, in order.
CompleteRows == SelectSeq(rows, LAMBDA r : ~Incomplete(r))

\* C23: the reduced mapping is the one the reduction gives for the table
\* without its incomplete rows; no stored record is an incomplete row, the
\* mapping has entries for the ids of complete rows only, and the records the
\* run processes are complete.
C23_IncompleteRowsNotReduced ==
  Reduced =>
    /\ latest = ReduceLatest(CompleteRows, EmptyLatest)
    /\ \A key \in DOMAIN latest.map : ~Incomplete(latest.map[key])
    /\ DOMAIN latest.map = {Val(CompleteRows[k].tilsynsobjektid) : k \in 1..Len(CompleteRows)}
    /\ \A n \in 1..Len(limited) : ~Incomplete(limited[n])

\* A completed run over a row of A, a later-dated row of A without a name and
\* a row of C without a name: the first row is A's stored record and was
\* emitted, C has no entry.
C23_Witness ==
  /\ pc = "done"
  /\ rows = <<Row_A_Early, [Row_A_Late EXCEPT !.navn = Some(<<>>)],
              [Row_A_Late EXCEPT !.tilsynsobjektid = Some(Str_C), !.navn = None]>>
  /\ DOMAIN latest.map = {Str_A}
  /\ latest.map[Str_A] = Row_A_Early
  /\ Len(features) = 1
  /\ features[1].dato = Dato_01012024

\* The rating shown for an embedded rating: the rating itself from 0 to 3,
\* unknown otherwise (in tenths).
Display(k) == IF k >= 0 /\ k <= 3 THEN 10 * k ELSE Unknown

\* C24: once the client has loaded the file of a completed run, it holds one
\* feature for each feature of the file, with the same embedded rating, and
\* the rating it computed for it is the embedded rating when that is from 0 to
\* 3 and unknown otherwise; the pipeline's -1 is shown as unknown.
C24_ClientShowsEmbeddedRating ==
  fetching = "done" =>
    /\ Len(Val(fullDataRef)) = Len(Val(diskOut))
    /\ \A a \in 1..Len(Val(diskOut)) :
         \E b \in 1..Len(Val(fullDataRef)) :
           /\ Val(fullDataRef)[b].tilsynsobjektid = Val(diskOut)[a].tilsynsobjektid
           /\ Val(fullDataRef)[b].karakter = Val(diskOut)[a].karakter
           /\ Val(fullDataRef)[b].smileScore = Display(Val(diskOut)[a].karakter)
    /\ \A b \in 1..Len(Val(fullDataRef)) :
         Val(fullDataRef)[b].karakter = -1 => Val(fullDataRef)[b].smileScore = Unknown

\* The client loaded a file of two features, one with the sentinel -1 for a
\* rating field that is not numeric, one with the rating 3: it shows unknown
\* and 3.
C24_Witness ==
  /\ fetching = "done"
  /\ Len(Val(fullDataRef)) = 2
  /\ latest.map[Val(fullDataRef)[1].tilsynsobjektid].total_karakter = Some(<<"x">>)
  /\ Val(fullDataRef)[1].karakter = -1
  /\ Val(fullDataRef)[1].smileScore = Unknown
  /\ Val(fullDataRef)[2].karakter = 3
  /\ Val(fullDataRef)[2].smileScore = 30

\* C25: when a run has completed, every feature's address is a key of the
\* geocode cache, in memory and as persisted, and the feature's coordinates
\* are the longitude and the latitude of that entry, in this order.
C25_FeatureCoordinatesFromCache ==
  pc = "done" =>
    \A a \in 1..Len(features) :
      /\ features[a].adresse \in DOMAIN geocodeCache
      /\ features[a].adresse \in DOMAIN Persisted(diskGeocode)
      /\ features[a].coordinates = <<Persisted(diskGeocode)[features[a].adresse].lon,
                                     Persisted(diskGeocode)[features[a].adresse].lat>>

\* The registry cache holds, for the valid number of row r, an entity that has
\* an operating-location address of which nothing is left once formatted.
BlankOperatingAddress(r) ==
  /\ ValidNumber(r.orgnummer)
  /\ Trim(Val(r.orgnummer)) \in DOMAIN brregCache
  /\ brregCache[Trim(Val(r.orgnummer))] # None
  /\ brregCache[Trim(Val(r.orgnummer))][1].beliggenhetsadresse # None
  /\ FormatTrimmed(brregCache[Trim(Val(r.orgnummer))][1].beliggenhetsadresse[1]) = None

\* The address the raw fields of a row give.
RawAddress(r) == Trim(Glue(RawFields(r), CommaSpace))

\* C26: a record whose cached entity has an operating-location address that
\* formats to null is geocoded and emitted under the address of its raw
\* fields, tagged MAT, whatever the registered-office address of the entity
\* is; when the raw fields give no address either, it has no geocoding
\* request and no feature.
C26_BlankOperatingAddressFallsBack ==
  Reduced =>
    \A n \in 1..Len(limited) :
      BlankOperatingAddress(limited[n]) =>
        /\ \A a \in FeaturesOf(IdOf(limited[n])) :
             /\ features[a].adressekilde = "MAT"
             /\ features[a].adresse = RawAddress(limited[n])
        /\ \A k \in RecordEntries(n) :
             log[k].kind \in {"G", "sleepG"} => log[k].key = RawAddress(limited[n])
        /\ RawAddress(limited[n]) = <<>> =>
             /\ FeaturesOf(IdOf(limited[n])) = {}
             /\ \A k \in RecordEntries(n) : log[k].kind \notin {"G", "sleepG"}

\* A completed run over two records whose entities have a blank
\* operating-location address and a registered-office address: the first was
\* emitted under its raw address "G 1", the second, without raw address, was
\* dropped.
C26_Witness ==
  /\ pc = "done"
  /\ Len(limited) = 2
  /\ \A n \in 1..2 :
       /\ BlankOperatingAddress(limited[n])
       /\ brregCache[Trim(Val(limited[n].orgnummer))][1].forretningsadresse = Some(Addr_Paren)
  /\ Len(features) = 1
  /\ features[1].tilsynsobjektid = IdOf(limited[1])
  /\ features[1].adresse = Adr_G1
  /\ features[1].adressekilde = "MAT"
  /\ RawAddress(limited[2]) = <<>>

\* A rating (in tenths) is shown under a filter mode: every rating under
\* "all", 0 and 1 under "smil", 2 under "strek", 3 under "sur".
Shown(mode, score) ==
  \/ mode = "all"
  \/ mode = "smil" /\ score \in {0, 10}
  \/ mode = "strek" /\ score = 20
  \/ mode = "sur" /\ score = 30

Range(list) == {list[k] : k \in 1..Len(list)}

\* C27: once the dataset is in the map source and no callback is pending, the
\* map source holds exactly the features of the full dataset whose rating is
\* shown under the selected filter mode.
C27_SourceHoldsFilteredDataset ==
  (fetching = "done" /\ loadOnce = <<>> /\ timers = <<>>)
    => Range(Val(source)) = {f \in Range(Val(fullDataRef)) : Shown(filterMode, f.smileScore)}

\* The length of a query once runs of blanks are one blank and the ends are
\* trimmed.
NormalizedLength(str) == Len(Trim(CollapseSpaces(str)))

\* C28: there are at most ten hits and the rating of each is shown under the
\* selected filter mode; a step that changes the filter mode empties the
\* query, the hits and the selection; with no callback pending, a query whose
\* normalized form has fewer than two characters has no hits.
C28_HitsWithinFilter ==
  /\ [](/\ Len(hits) <= 10
        /\ \A k \in 1..Len(hits) : Shown(filterMode, hits[k].smileScore)
        /\ (timers = <<>> /\ NormalizedLength(query) < 2) => hits = <<>>)
  /\ [][ filterMode' # filterMode
           => (query' = <<>> /\ hits' = <<>> /\ selectedId' = None) ]_vars

====
